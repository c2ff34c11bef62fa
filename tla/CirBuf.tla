------------------------------- MODULE CirBuf -------------------------------
(***************************************************************************)
(* pkg/jobmanager/cirbuf.go: the ring between the loop that reads a job's  *)
(* PTY and the loop that sends its output.  One lock guards every method,  *)
(* so each method is one action.  A byte's value is its position in the    *)
(* stream, which is what lets a wrong index show up as a wrong byte.       *)
(*                                                                         *)
(* One goroutine (StreamManager.readLoop) writes.  It retries a refused    *)
(* write when the channel it was given is closed, so it is either idle,    *)
(* holding bytes it still has to write, or parked on that channel.         *)
(***************************************************************************)
EXTENDS Integers, Sequences

CONSTANTS
  Size,       \* len(buf)
  MaxWrite,   \* the largest slice handed to WriteAvailable
  MaxTotal    \* bound of the model: bytes the stream ever carries

CirBufAssumption ==
  /\ Size \in Nat \ {0}
  /\ MaxWrite \in Nat \ {0}
  /\ MaxTotal \in Nat

VARIABLES
  buf,         \* the slots; -1 is a slot never written
  readPos,
  writePos,
  count,
  totalSize,
  syncMode,
  windowSize,
  waiterChan,  \* TRUE: a channel of a blocked writer is registered
  unwritten,   \* bytes the writer still has to write
  parked       \* TRUE: the writer waits on the channel it registered

vars == <<buf, readPos, writePos, count, totalSize, syncMode, windowSize,
          waiterChan, unwritten, parked>>

ringVars == <<buf, readPos, writePos, count, totalSize>>

Init ==
  /\ buf = [i \in 0 .. Size - 1 |-> -1]
  /\ readPos = 0 /\ writePos = 0 /\ count = 0 /\ totalSize = 0
  /\ syncMode \in BOOLEAN
  /\ windowSize = Size
  /\ waiterChan = FALSE
  /\ unwritten = 0 /\ parked = FALSE

MinOf(a, b) == IF a <= b THEN a ELSE b
MaxOf(a, b) == IF a <= b THEN b ELSE a

-----------------------------------------------------------------------------

(* tryWakeWriter: closes the registered channel, if there is one.           *)
TryWakeWriter ==
  /\ waiterChan' = FALSE
  /\ parked' = IF waiterChan THEN FALSE ELSE parked

KeepWriter == UNCHANGED <<waiterChan, parked>>

(* Mutant: a window that grows wakes nobody.                                *)
SetEffectiveWindowMutant(sync, requested) ==
  LET win == MinOf(requested, Size)
      excess == IF ~sync /\ count > win THEN count - win ELSE 0
  IN  /\ windowSize' = win
      /\ syncMode' = sync
      /\ readPos' = (readPos + excess) % Size
      /\ count' = count - excess
      /\ IF syncMode /\ ~sync THEN TryWakeWriter ELSE KeepWriter
      /\ UNCHANGED <<buf, writePos, totalSize, unwritten>>

SetEffectiveWindow(sync, requested) ==
  LET win == MinOf(requested, Size)
      excess == IF ~sync /\ count > win THEN count - win ELSE 0
  IN  /\ windowSize' = win
      /\ syncMode' = sync
      /\ readPos' = (readPos + excess) % Size
      /\ count' = count - excess
      /\ IF syncMode /\ (win > windowSize \/ ~sync) THEN TryWakeWriter ELSE KeepWriter
      /\ UNCHANGED <<buf, writePos, totalSize, unwritten>>

(* Mutant: a slice longer than the window is copied from its write position. *)
CopiedMutant(n, kept) ==
  [i \in 0 .. Size - 1 |->
     LET off == (i - writePos + Size) % Size
     IN  IF off < kept THEN totalSize + n - kept + off ELSE buf[i]]

(* The slots after the last kept bytes of a slice of n are copied in.       *)
Copied(n, kept) ==
  LET start == (writePos + n - kept) % Size
  IN  [i \in 0 .. Size - 1 |->
         LET off == (i - start + Size) % Size
         IN  IF off < kept THEN totalSize + n - kept + off ELSE buf[i]]

(* How much of a slice WriteAvailable takes.                                *)
Accepted(len) ==
  IF syncMode THEN MinOf(len, MaxOf(0, windowSize - count)) ELSE len

StoreBytes(n) ==
  LET newCount == MinOf(count + n, windowSize)
      newWrite == (writePos + n) % Size
  IN  /\ buf' = Copied(n, MinOf(n, windowSize))
      /\ writePos' = newWrite
      /\ count' = newCount
      /\ readPos' = (newWrite - newCount + Size) % Size
      /\ totalSize' = totalSize + n
      /\ unwritten' = unwritten - n

WriteAvailable ==
  /\ unwritten > 0
  /\ ~parked
  /\ \/ /\ Accepted(unwritten) > 0
        /\ StoreBytes(Accepted(unwritten))
        /\ KeepWriter
     \/ /\ Accepted(unwritten) = 0
        /\ waiterChan' = TRUE        \* a second registration would panic
        /\ parked' = TRUE
        /\ UNCHANGED <<ringVars, unwritten>>
  /\ UNCHANGED <<syncMode, windowSize>>

(* Mutant: the check on the amount is missing.                              *)
ConsumeMutant(n) ==
  /\ readPos' = (readPos + n) % Size
  /\ count' = count - n
  /\ TryWakeWriter
  /\ UNCHANGED <<buf, writePos, totalSize, syncMode, windowSize, unwritten>>

Consume(n) ==
  /\ n <= count                      \* more is refused with an error
  /\ readPos' = (readPos + n) % Size
  /\ count' = count - n
  /\ TryWakeWriter
  /\ UNCHANGED <<buf, writePos, totalSize, syncMode, windowSize, unwritten>>

HeadPos == totalSize - count

(* PeekDataAt(offset, data) copies out min(len(data), count - offset) bytes *)
PeekDataAt(offset, len) ==
  IF count = 0 \/ offset >= count THEN <<>>
  ELSE [i \in 1 .. MinOf(len, count - offset) |-> buf[(readPos + offset + i - 1) % Size]]

-----------------------------------------------------------------------------
(* The PTY hands the writer its next slice.                                 *)
NextSlice(n) ==
  /\ unwritten = 0
  /\ totalSize + n <= MaxTotal
  /\ unwritten' = n
  /\ UNCHANGED <<ringVars, syncMode, windowSize, waiterChan, parked>>

Next ==
  \/ \E n \in 1 .. MaxWrite : NextSlice(n)
  \/ WriteAvailable
  \/ \E n \in 1 .. Size : Consume(n)
  \/ \E s \in BOOLEAN, w \in 0 .. Size + 1 : SetEffectiveWindow(s, w)

Spec == Init /\ [][Next]_vars

-----------------------------------------------------------------------------
(* Every variable keeps its type; counts and indices stay in the ring.      *)
TypeOK ==
  /\ buf \in [0 .. Size - 1 -> -1 .. MaxTotal - 1]
  /\ readPos \in 0 .. Size - 1
  /\ writePos \in 0 .. Size - 1
  /\ count \in 0 .. Size
  /\ totalSize \in 0 .. MaxTotal
  /\ syncMode \in BOOLEAN
  /\ windowSize \in 0 .. Size
  /\ waiterChan \in BOOLEAN
  /\ unwritten \in 0 .. MaxWrite
  /\ parked \in BOOLEAN

(* The channel slot mirrors the parked writer: nobody registers a second    *)
(* channel (WriteAvailable would panic), and no writer sleeps on a channel  *)
(* nobody holds any more.                                                   *)
OneWaiter == waiterChan <=> parked

(* A parked writer really has no room: every change that could make room,   *)
(* a larger window, a consume or a switch to async mode, has woken it.      *)
ParkedOnlyWhenFull == parked => syncMode /\ count >= windowSize

(* The writer waits exactly on a registered channel, and for a reason.      *)
WriterNotForgotten == OneWaiter /\ ParkedOnlyWhenFull

(* What a reader sees.                                                      *)
Held == PeekDataAt(0, Size)

Window == INSTANCE ByteWindow WITH
  held <- Held, total <- totalSize, sync <- syncMode, window <- windowSize

(* The promise: whatever the indices do, the reader sees the newest bytes   *)
(* of the stream in order, and in sync mode a write drops nothing.          *)
Refinement == Window!Spec
=============================================================================
