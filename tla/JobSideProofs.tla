---------------------------- MODULE JobSideProofs ----------------------------
(***************************************************************************)
(* Proofs about the components of JobSide.tla.  First the ring, of which   *)
(* CirBuf.tla is a part of this module: for every size it keeps its        *)
(* indices in step with the stream, wakes its writer and implements the    *)
(* queue of the newest bytes of ByteWindow.                                *)
(*                                                                         *)
(* Then the composition: what is proved of the other components, each in   *)
(* its own module, holds of JobSide, as a behaviour of JobSide is a        *)
(* behaviour of every component, which is at rest where `part` names       *)
(* another one.                                                            *)
(***************************************************************************)
EXTENDS JobSide, TLAPS

OP == INSTANCE JobOutputProofs WITH acks <- outAcks
QP == INSTANCE ReorderQueueProofs WITH Sessions <- InputSessions
SP == INSTANCE SshConnProofs
FP == INSTANCE PortForwardProofs WITH closed <- fwdClosed

-----------------------------------------------------------------------------
(* Arithmetic of indices                                                    *)

(* What a remainder is.                                                     *)
LEMMA ModDef ==
  ASSUME NEW n \in Nat \ {0}, NEW x \in Int
  PROVE  x % n \in 0 .. n - 1 /\ x \div n \in Int /\ x = n * (x \div n) + (x % n)
BY SMT

(* Quotient and remainder are unique.                                       *)
LEMMA ModUnique ==
  ASSUME NEW n \in Nat \ {0}, NEW q \in Int, NEW r \in 0 .. n - 1
  PROVE  (n * q + r) % n = r
<1> DEFINE x == n * q + r
           d == x \div n
           m == x % n
<1>1. x \in Int
  OBVIOUS
<1>2. d \in Int /\ m \in 0 .. n - 1 /\ x = n * d + m
  BY <1>1, ModDef
<1> HIDE DEF d, m
<1>3. n * (q - d) = m - r
  BY <1>2
<1>4. ~(q - d >= 1)
  <2> SUFFICES ASSUME q - d >= 1 PROVE FALSE
    OBVIOUS
  <2>1. n * (q - d) >= n
    BY <1>2
  <2> QED
    BY <2>1, <1>2, <1>3
<1>5. ~(q - d <= -1)
  <2> SUFFICES ASSUME q - d <= -1 PROVE FALSE
    OBVIOUS
  <2>1. n * (d - q) >= n
    BY <1>2
  <2>2. n * (q - d) = -(n * (d - q))
    BY <1>2
  <2> QED
    BY <2>1, <2>2, <1>2, <1>3
<1>6. q = d
  BY <1>2, <1>4, <1>5
<1>7. m = r
  BY <1>2, <1>3, <1>6
<1> QED
  BY <1>7 DEF m

(* Whole turns do not matter.                                               *)
LEMMA ModTurns ==
  ASSUME NEW n \in Nat \ {0}, NEW x \in Int, NEW k \in Int
  PROVE  (x + n * k) % n = x % n
<1> DEFINE q == x \div n
           r == x % n
<1>1. q \in Int /\ r \in 0 .. n - 1 /\ x = n * q + r
  BY ModDef
<1> HIDE DEF q, r
<1>2. q + k \in Int /\ x + n * k = n * (q + k) + r
  BY <1>1
<1>3. (n * (q + k) + r) % n = r
  BY <1>1, <1>2, ModUnique
<1> QED
  BY <1>2, <1>3 DEF r

(* An index may be taken to the ring before or after it is moved.           *)
LEMMA ModShift ==
  ASSUME NEW n \in Nat \ {0}, NEW x \in Int, NEW d \in Int
  PROVE  ((x % n) + d) % n = (x + d) % n /\ (d - (x % n)) % n = (d - x) % n
<1> DEFINE q == x \div n
           r == x % n
<1>1. q \in Int /\ r \in 0 .. n - 1 /\ x = n * q + r
  BY ModDef
<1> HIDE DEF q, r
<1>2. r + d \in Int /\ d - r \in Int /\ -q \in Int
  BY <1>1
<1>3. (r + d + n * q) % n = (r + d) % n /\ (d - r + n * (-q)) % n = (d - r) % n
  BY <1>1, <1>2, ModTurns
<1>4. r + d + n * q = x + d /\ d - r + n * (-q) = d - x
  BY <1>1, <1>2
<1> QED
  BY <1>3, <1>4 DEF r

(* An index less than a turn away.                                          *)
LEMMA ModNear ==
  ASSUME NEW n \in Nat \ {0}, NEW x \in Int
  PROVE  /\ x \in 0 .. n - 1 => x % n = x
         /\ x \in -n .. -1 => x % n = x + n
         /\ (x + n) % n = x % n
<1>1. ASSUME x \in 0 .. n - 1 PROVE x % n = x
  <2>1. (n * 0 + x) % n = x
    BY <1>1, ModUnique
  <2> QED
    BY <2>1
<1>2. ASSUME x \in -n .. -1 PROVE x % n = x + n
  <2>1. x + n \in 0 .. n - 1
    BY <1>2
  <2>2. (n * (-1) + (x + n)) % n = x + n
    BY <2>1, ModUnique
  <2>3. n * (-1) + (x + n) = x
    OBVIOUS
  <2> QED
    BY <2>2, <2>3
<1>3. (x + n * 1) % n = x % n
  <2>1. 1 \in Int
    OBVIOUS
  <2> QED
    BY <2>1, ModTurns
<1>4. x + n * 1 = x + n
  OBVIOUS
<1> QED
  BY <1>1, <1>2, <1>3, <1>4

-----------------------------------------------------------------------------
(* The ring                                                                 *)

(* Where a position of the stream has its slot.                             *)
Slot(p) == p % Size

(* The indices are those of the stream's end and head, and the slots of the *)
(* positions in between hold them.                                          *)
InStep ==
  /\ count <= totalSize
  /\ writePos = Slot(totalSize) /\ readPos = Slot(HeadPos)
  /\ \A p \in Int : HeadPos <= p /\ p < totalSize => buf[Slot(p)] = p

Inv == TypeOK /\ InStep /\ totalSize + unwritten <= MaxTotal /\ WriterNotForgotten

(* InStep in the next state.                                                *)
LEMMA NextInStep ==
  ASSUME count' <= totalSize', writePos' = Slot(totalSize'), readPos' = Slot(HeadPos'),
         \A p \in Int : HeadPos' <= p /\ p < totalSize' => buf'[Slot(p)] = p
  PROVE  InStep'
BY DEF InStep, Slot

(* Slots are slots, and a position one past a known slot is where expected. *)
LEMMA SlotFacts ==
  ASSUME CirBufAssumption, NEW p \in Int
  PROVE  /\ Slot(p) \in 0 .. Size - 1
         /\ \A d \in Int : (Slot(p) + d) % Size = Slot(p + d)
         /\ \A q \in Int : (Slot(p) - Slot(q) + Size) % Size = (p - q) % Size
<1>1. Size \in Nat \ {0}
  BY DEF CirBufAssumption
<1>2. Slot(p) \in 0 .. Size - 1
  BY <1>1, ModDef DEF Slot
<1>3. ASSUME NEW d \in Int PROVE (Slot(p) + d) % Size = Slot(p + d)
  BY <1>1, ModShift DEF Slot
<1>4. ASSUME NEW q \in Int PROVE (Slot(p) - Slot(q) + Size) % Size = (p - q) % Size
  <2>1. Slot(q) \in Int /\ Slot(p) \in Int /\ p - Slot(q) \in Int /\ Slot(p) - Slot(q) \in Int
    BY <1>1, <1>2, ModDef DEF Slot
  <2>2. (Slot(p) - Slot(q) + Size) % Size = (Slot(p) - Slot(q)) % Size
    BY <1>1, <2>1, ModNear
  <2>3. (Slot(p) + (-Slot(q))) % Size = (p + (-Slot(q))) % Size
    <3>1. -Slot(q) \in Int
      BY <2>1
    <3> QED
      BY <1>1, <3>1, ModShift DEF Slot
  <2>4. Slot(p) - Slot(q) = Slot(p) + (-Slot(q)) /\ p - Slot(q) = p + (-Slot(q))
    BY <2>1
  <2>5. (p - Slot(q)) % Size = (p - q) % Size
    BY <1>1, ModShift DEF Slot
  <2> QED
    BY <2>2, <2>3, <2>4, <2>5
<1> QED
  BY <1>2, <1>3, <1>4

(* What the reader sees are the newest `count` positions, in order.         *)
LEMMA HeldIs ==
  ASSUME CirBufAssumption, Inv
  PROVE  Held = Window!Positions(HeadPos, count)
<1>1. Size \in Nat \ {0} /\ count \in 0 .. Size /\ totalSize \in Nat /\ HeadPos \in Int
  BY DEF Inv, TypeOK, CirBufAssumption, HeadPos
<1>2. CASE count = 0
  BY <1>2 DEF Held, PeekDataAt, Window!Positions
<1>3. CASE count # 0
  <2>1. MinOf(Size, count - 0) = count
    BY <1>1 DEF MinOf
  <2>2. Held = [i \in 1 .. count |-> buf[(readPos + 0 + i - 1) % Size]]
    BY <1>1, <1>3, <2>1 DEF Held, PeekDataAt
  <2>3. ASSUME NEW i \in 1 .. count PROVE buf[(readPos + 0 + i - 1) % Size] = HeadPos + i - 1
    <3>1. readPos + 0 + i - 1 = Slot(HeadPos) + (i - 1)
      BY <1>1, <2>3, SlotFacts DEF Inv, InStep
    <3>2. (readPos + 0 + i - 1) % Size = Slot(HeadPos + (i - 1))
      BY <1>1, <2>3, <3>1, SlotFacts
    <3>3. HeadPos <= HeadPos + (i - 1) /\ HeadPos + (i - 1) < totalSize /\ HeadPos + (i - 1) \in Int
      BY <1>1, <2>3 DEF HeadPos
    <3> QED
      BY <1>1, <3>2, <3>3 DEF Inv, InStep
  <2> QED
    BY <2>2, <2>3 DEF Window!Positions
<1> QED
  BY <1>2, <1>3

-----------------------------------------------------------------------------
(* Runs of positions                                                        *)

(* Runs that follow each other join, and the parts of a run are runs.       *)
LEMMA Runs ==
  ASSUME NEW h \in Int, NEW c \in Nat, NEW n \in Nat
  PROVE  /\ Len(Window!Positions(h, c)) = c /\ Window!Positions(h, c) \in Seq(Int)
         /\ Window!Positions(h, c) \o Window!Positions(h + c, n) = Window!Positions(h, c + n)
         /\ n <= c => SubSeq(Window!Positions(h, c), n + 1, c) = Window!Positions(h + n, c - n)
<1>1. ASSUME NEW g \in Int, NEW d \in Nat
      PROVE  Len(Window!Positions(g, d)) = d /\ Window!Positions(g, d) \in Seq(Int)
  BY DEF Window!Positions
<1>2. Window!Positions(h, c) \o Window!Positions(h + c, n) = Window!Positions(h, c + n)
  BY <1>1 DEF Window!Positions
<1>3. ASSUME n <= c PROVE SubSeq(Window!Positions(h, c), n + 1, c) = Window!Positions(h + n, c - n)
  BY <1>1, <1>3 DEF Window!Positions
<1> QED
  BY <1>1, <1>2, <1>3

(* The newest bytes of a run are its end.                                   *)
LEMMA NewestRun ==
  ASSUME NEW h \in Int, NEW c \in Nat, NEW w \in Nat
  PROVE  Window!Newest(Window!Positions(h, c), w) =
           Window!Positions(h + c - MinOf(c, w), MinOf(c, w))
<1>1. CASE c <= w
  BY <1>1, Runs DEF Window!Newest, MinOf
<1>2. CASE ~(c <= w)
  <2>1. c - w \in Nat /\ c - w <= c /\ c - (c - w) = w /\ h + (c - w) = h + c - w
    BY <1>2
  <2>2. SubSeq(Window!Positions(h, c), c - w + 1, c) = Window!Positions(h + (c - w), c - (c - w))
    BY <2>1, Runs
  <2>3. Len(Window!Positions(h, c)) = c
    BY Runs
  <2>4. Window!Newest(Window!Positions(h, c), w) = SubSeq(Window!Positions(h, c), c - w + 1, c)
    BY <1>2, <2>3 DEF Window!Newest
  <2>5. MinOf(c, w) = w
    BY <1>2 DEF MinOf
  <2> QED
    BY <2>1, <2>2, <2>4, <2>5
<1> QED
  BY <1>1, <1>2

-----------------------------------------------------------------------------
(* The steps                                                                *)

(* The head moves forward over what leaves the ring.                        *)
LEMMA HeadMoves ==
  ASSUME CirBufAssumption, Inv, NEW n \in 0 .. count,
         readPos' = (readPos + n) % Size, count' = count - n,
         UNCHANGED <<buf, writePos, totalSize>>
  PROVE  InStep' /\ readPos' \in 0 .. Size - 1 /\ HeadPos' = HeadPos + n
<1>1. Size \in Nat \ {0} /\ count \in 0 .. Size /\ totalSize \in Nat /\ HeadPos \in Int
  BY DEF Inv, TypeOK, CirBufAssumption, HeadPos
<1>2. HeadPos' = HeadPos + n
  BY <1>1 DEF HeadPos
<1>3. readPos' = Slot(HeadPos + n) /\ readPos' \in 0 .. Size - 1
  <2>1. readPos = Slot(HeadPos) /\ n \in Int /\ HeadPos + n \in Int
    BY <1>1 DEF Inv, InStep
  <2>2. (Slot(HeadPos) + n) % Size = Slot(HeadPos + n)
    BY <1>1, <2>1, SlotFacts
  <2>3. Slot(HeadPos + n) \in 0 .. Size - 1
    BY <2>1, SlotFacts
  <2> QED
    BY <2>1, <2>2, <2>3
<1>4. /\ count' <= totalSize' /\ writePos' = Slot(totalSize') /\ readPos' = Slot(HeadPos')
      /\ \A p \in Int : HeadPos' <= p /\ p < totalSize' => buf'[Slot(p)] = p
  BY <1>1, <1>2, <1>3 DEF Inv, InStep
<1> QED
  BY <1>2, <1>3, <1>4, NextInStep

(* A position that stays, when `first` is the first one stored.             *)
LEMMA StayingArithmetic ==
  ASSUME NEW n \in Int, NEW size \in Int, NEW window \in Int, NEW kept \in Int, NEW first \in Int,
         NEW total \in Int, NEW held \in Int, NEW left \in Int, NEW p \in Int,
         0 <= kept, kept <= window, window <= size, left <= window, left <= held + n,
         first - total = n - kept, first = total \/ kept = window,
         first + kept - left <= p, p < first
  PROVE  /\ p - first \in -size .. -1 /\ p - first + size >= kept
         /\ total - held <= p /\ p < total
OBVIOUS

(* The bytes a write stores get the slots of their positions, and those     *)
(* that stay keep theirs.                                                   *)
LEMMA StoreKeepsStep ==
  ASSUME CirBufAssumption, Inv, NEW n \in 1 .. unwritten, StoreBytes(n), UNCHANGED windowSize
  PROVE  /\ InStep' /\ readPos' \in 0 .. Size - 1 /\ writePos' \in 0 .. Size - 1
         /\ buf' \in [0 .. Size - 1 -> -1 .. MaxTotal - 1]
<1> DEFINE kept == MinOf(n, windowSize)
           first == totalSize + n - kept
           next == totalSize + n
           left == MinOf(count + n, windowSize)
           start == (writePos + n - kept) % Size
           off(i) == (i - start + Size) % Size
<1>1. /\ Size \in Nat \ {0} /\ count \in 0 .. Size /\ totalSize \in Nat /\ count <= totalSize
      /\ HeadPos = totalSize - count /\ windowSize \in 0 .. Size /\ unwritten \in Nat /\ MaxTotal \in Nat
      /\ totalSize + n <= MaxTotal
  BY DEF Inv, InStep, TypeOK, CirBufAssumption, HeadPos
<1>2. /\ kept \in 0 .. n /\ kept <= windowSize /\ first \in Int /\ next \in Int
      /\ left \in 0 .. windowSize /\ left <= count + n
      /\ count' = left /\ totalSize' = next /\ HeadPos' = next - left
  BY <1>1 DEF MinOf, StoreBytes, HeadPos
<1>3. start = Slot(first)
  <2>1. writePos \in Int /\ writePos = Slot(totalSize) /\ n - kept \in Int
    BY <1>1, <1>2 DEF Inv, InStep, TypeOK
  <2>2. writePos + n - kept = writePos + (n - kept) /\ first = totalSize + (n - kept)
    BY <1>1, <1>2, <2>1
  <2>3. (Slot(totalSize) + (n - kept)) % Size = Slot(totalSize + (n - kept))
    BY <1>1, <2>1, SlotFacts
  <2> QED
    BY <2>1, <2>2, <2>3
<1>4. buf' = [i \in 0 .. Size - 1 |-> IF off(i) < kept THEN first + off(i) ELSE buf[i]]
  BY DEF StoreBytes, Copied
<1>5. writePos' = Slot(next) /\ writePos' \in 0 .. Size - 1
  BY <1>1, <1>2, SlotFacts DEF StoreBytes, Inv, InStep
<1>6. readPos' = Slot(next - left) /\ readPos' \in 0 .. Size - 1
  <2>1. readPos' = (Slot(next) - left + Size) % Size
    BY <1>1, <1>2, SlotFacts DEF StoreBytes, Inv, InStep
  <2>2. Slot(next) - left + Size = Slot(next) + (Size - left)
    <3>1. Slot(next) \in Int /\ left \in Int /\ Size \in Int
      BY <1>1, <1>2, SlotFacts
    <3> QED
      BY <3>1
  <2>3. readPos' = Slot(next + (Size - left))
    <3>1. Size - left \in Int
      BY <1>1, <1>2
    <3>2. (Slot(next) + (Size - left)) % Size = Slot(next + (Size - left))
      BY <1>2, <3>1, SlotFacts
    <3> QED
      BY <2>1, <2>2, <3>2
  <2>4. next + (Size - left) = (next - left) + Size
    BY <1>1, <1>2
  <2>5. Slot((next - left) + Size) = Slot(next - left)
    <3>1. next - left \in Int
      BY <1>1, <1>2
    <3> HIDE DEF next
    <3> QED
      BY <1>1, <3>1, ModNear DEF Slot
  <2> QED
    BY <1>1, <1>2, <2>3, <2>4, <2>5, SlotFacts
<1>9. /\ next = first + kept /\ left <= next /\ kept <= Size /\ (n <= kept \/ kept = windowSize)
      /\ first >= totalSize /\ (first = totalSize \/ kept = windowSize)
      /\ first - totalSize = n - kept /\ next = totalSize + n
  BY <1>1, <1>2 DEF MinOf
<1> HIDE DEF kept, first, next, left, start
<1>10. /\ kept \in Int /\ first \in Int /\ next \in Int /\ totalSize \in Int /\ left \in Int
       /\ Size \in Int /\ windowSize \in Int /\ count \in Int /\ n \in Int
  BY <1>1, <1>2
<1>7. ASSUME NEW p \in Int, next - left <= p, p < next PROVE buf'[Slot(p)] = p
  <2>1. Slot(p) \in 0 .. Size - 1 /\ off(Slot(p)) = (p - first) % Size
    BY <1>2, <1>3, SlotFacts
  <2>2. CASE p >= first
    <3>1. p - first \in 0 .. Size - 1 /\ p - first < kept
      BY <1>1, <1>2, <1>7, <1>9, <2>2
    <3>2. off(Slot(p)) = p - first
      <4>1. p - first \in Int
        BY <1>2
      <4>2. (p - first) % Size = p - first
        BY <1>1, <3>1, <4>1, ModNear
      <4> QED
        BY <2>1, <4>2
    <3> QED
      BY <1>2, <1>4, <2>1, <3>1, <3>2
  <2>3. CASE p < first
    <3>1. /\ p - first \in -Size .. -1 /\ p - first + Size >= kept
          /\ totalSize - count <= p /\ p < totalSize
      <4>1. 0 <= kept /\ kept <= windowSize /\ windowSize <= Size
        BY <1>10, <1>1, <1>2
      <4>2. left <= windowSize /\ left <= count + n
        BY <1>10, <1>2
      <4>3. first + kept - left <= p
        <5>1. next = first + kept
          BY <1>9
        <5> QED
          BY <1>7, <1>10, <5>1
      <4>4. first - totalSize = n - kept /\ (first = totalSize \/ kept = windowSize)
        BY <1>9
      <4> QED
        BY <1>10, <2>3, <4>1, <4>2, <4>3, <4>4, StayingArithmetic
    <3>2. off(Slot(p)) = p - first + Size
      <4>1. p - first \in Int
        BY <1>2
      <4>2. (p - first) % Size = p - first + Size
        BY <1>1, <3>1, <4>1, ModNear
      <4> QED
        BY <2>1, <4>2
    <3>3. HeadPos <= p /\ p < totalSize
      BY <1>1, <3>1
    <3> QED
      BY <1>1, <1>2, <1>4, <2>1, <3>1, <3>2, <3>3 DEF Inv, InStep
  <2> QED
    BY <1>2, <2>2, <2>3
<1>8. buf' \in [0 .. Size - 1 -> -1 .. MaxTotal - 1]
  <2>1. ASSUME NEW i \in 0 .. Size - 1 PROVE buf'[i] \in -1 .. MaxTotal - 1
    <3>1. start \in Int /\ i - start + Size \in Int
      <4>1. start \in 0 .. Size - 1
        BY <1>2, <1>3, SlotFacts
      <4> QED
        BY <1>1, <4>1
    <3>2. off(i) \in 0 .. Size - 1
      BY <1>1, <3>1, ModDef
    <3> QED
      BY <1>1, <1>2, <1>4, <3>2 DEF Inv, TypeOK, first
  <2> QED
    BY <1>4, <2>1
<1> QED
  <2>1. count' <= totalSize' /\ totalSize' = next /\ HeadPos' = next - left
    BY <1>1, <1>2, <1>9, <1>10
  <2>2. writePos' = Slot(totalSize') /\ readPos' = Slot(HeadPos')
    BY <1>5, <1>6, <2>1
  <2>3. \A p \in Int : HeadPos' <= p /\ p < totalSize' => buf'[Slot(p)] = p
    BY <1>7, <2>1
  <2>4. InStep'
    BY <2>1, <2>2, <2>3, NextInStep
  <2> QED
    BY <1>5, <1>6, <1>8, <2>4

(* A write takes some of what the writer holds, in sync mode what fits.     *)
LEMMA AcceptedFits ==
  ASSUME Inv, CirBufAssumption, unwritten > 0
  PROVE  /\ Accepted(unwritten) \in 0 .. unwritten
         /\ syncMode /\ Accepted(unwritten) > 0 => count + Accepted(unwritten) <= windowSize
         /\ Accepted(unwritten) = 0 => syncMode /\ count >= windowSize
BY DEF Inv, TypeOK, CirBufAssumption, Accepted, MinOf, MaxOf

(* Whether the writer is woken or not, it waits on a registered channel;    *)
(* when it is woken it waits no longer.                                     *)
LEMMA Waking ==
  ASSUME TypeOK, OneWaiter, TryWakeWriter \/ KeepWriter
  PROVE  /\ waiterChan' \in BOOLEAN /\ parked' \in BOOLEAN /\ OneWaiter'
         /\ parked' => parked /\ KeepWriter
<1>1. waiterChan \in BOOLEAN /\ parked \in BOOLEAN /\ (waiterChan <=> parked)
  BY DEF TypeOK, OneWaiter
<1>2. CASE TryWakeWriter
  BY <1>1, <1>2 DEF TryWakeWriter, OneWaiter
<1>3. CASE KeepWriter
  BY <1>1, <1>3 DEF KeepWriter, OneWaiter
<1> QED
  BY <1>2, <1>3

(* The PTY's next slice is within the bound, and touches nothing else.      *)
LEMMA NextSliceKeeps ==
  ASSUME CirBufAssumption, Inv, NEW n \in 1 .. MaxWrite, NextSlice(n)
  PROVE  Inv'
<1>1. TypeOK' /\ totalSize' + unwritten' <= MaxTotal
  BY DEF Inv, TypeOK, CirBufAssumption, NextSlice, ringVars
<1>2. InStep'
  <2>1. count' = count /\ totalSize' = totalSize /\ writePos' = writePos /\ readPos' = readPos /\ buf' = buf
    BY DEF NextSlice, ringVars
  <2> QED
    BY <2>1 DEF Inv, InStep, HeadPos, Slot
<1>3. WriterNotForgotten'
  BY DEF Inv, WriterNotForgotten, OneWaiter, ParkedOnlyWhenFull, NextSlice, ringVars
<1> QED
  BY <1>1, <1>2, <1>3 DEF Inv

(* A write stores what fits, or makes the writer wait for room.             *)
LEMMA WriteKeeps ==
  ASSUME CirBufAssumption, Inv, WriteAvailable
  PROVE  Inv'
<1> DEFINE n == Accepted(unwritten)
<1>1. n \in 0 .. unwritten /\ unwritten > 0 /\ unwritten \in Nat /\ (n = 0 => syncMode /\ count >= windowSize)
  BY AcceptedFits DEF WriteAvailable, Inv, TypeOK, CirBufAssumption
<1> HIDE DEF n
<1>2. CASE n > 0
  <2>1. StoreBytes(n) /\ KeepWriter /\ UNCHANGED <<syncMode, windowSize>> /\ n \in 1 .. unwritten
    BY <1>1, <1>2 DEF WriteAvailable, n
  <2>2. /\ InStep' /\ readPos' \in 0 .. Size - 1 /\ writePos' \in 0 .. Size - 1
        /\ buf' \in [0 .. Size - 1 -> -1 .. MaxTotal - 1]
    BY <2>1, StoreKeepsStep
  <2>3. count' \in 0 .. Size /\ totalSize' \in 0 .. MaxTotal /\ unwritten' \in 0 .. MaxWrite
        /\ totalSize' + unwritten' <= MaxTotal
    BY <1>1, <2>1 DEF Inv, TypeOK, CirBufAssumption, StoreBytes, MinOf
  <2>4. WriterNotForgotten' /\ syncMode' \in BOOLEAN /\ windowSize' \in 0 .. Size
        /\ waiterChan' \in BOOLEAN /\ parked' \in BOOLEAN
    BY <2>1 DEF Inv, TypeOK, WriterNotForgotten, OneWaiter, ParkedOnlyWhenFull, KeepWriter, WriteAvailable
  <2> QED
    BY <2>2, <2>3, <2>4 DEF Inv, TypeOK
<1>3. CASE n = 0
  <2>1. /\ waiterChan' = TRUE /\ parked' = TRUE /\ UNCHANGED <<ringVars, unwritten, syncMode, windowSize>>
        /\ syncMode /\ count >= windowSize
    BY <1>1, <1>3 DEF WriteAvailable, n
  <2>2. count' = count /\ totalSize' = totalSize /\ writePos' = writePos /\ readPos' = readPos /\ buf' = buf
    BY <2>1 DEF ringVars
  <2>3. InStep'
    BY <2>2 DEF Inv, InStep, HeadPos, Slot
  <2>4. TypeOK' /\ totalSize' + unwritten' <= MaxTotal
    BY <2>1, <2>2 DEF Inv, TypeOK
  <2>5. WriterNotForgotten'
    BY <2>1, <2>2 DEF WriterNotForgotten, OneWaiter, ParkedOnlyWhenFull
  <2> QED
    BY <2>3, <2>4, <2>5 DEF Inv
<1> QED
  BY <1>1, <1>2, <1>3

(* A consume moves the head and wakes the writer.                           *)
LEMMA ConsumeKeeps ==
  ASSUME CirBufAssumption, Inv, NEW n \in 1 .. Size, Consume(n)
  PROVE  Inv'
<1>1. n \in 0 .. count /\ Size \in Nat \ {0} /\ count \in 0 .. Size
  BY DEF Consume, Inv, TypeOK, CirBufAssumption
<1>2. InStep' /\ readPos' \in 0 .. Size - 1
  BY <1>1, HeadMoves DEF Consume
<1>3. /\ waiterChan' \in BOOLEAN /\ parked' \in BOOLEAN /\ OneWaiter' /\ parked' = FALSE
  BY Waking DEF Consume, Inv, WriterNotForgotten, TryWakeWriter, OneWaiter, TypeOK
<1>4. TypeOK' /\ totalSize' + unwritten' <= MaxTotal
  BY <1>1, <1>2, <1>3 DEF Consume, Inv, TypeOK
<1>5. WriterNotForgotten'
  BY <1>3 DEF WriterNotForgotten, ParkedOnlyWhenFull
<1> QED
  BY <1>2, <1>4, <1>5 DEF Inv

(* A new window or mode may drop the front, and wakes the writer if that    *)
(* can make room.                                                           *)
LEMMA SetWindowKeeps ==
  ASSUME CirBufAssumption, Inv, NEW sync \in BOOLEAN, NEW requested \in 0 .. Size + 1,
         SetEffectiveWindow(sync, requested)
  PROVE  Inv'
<1> DEFINE win == MinOf(requested, Size)
           excess == IF ~sync /\ count > win THEN count - win ELSE 0
<1>1. /\ Size \in Nat \ {0} /\ count \in 0 .. Size /\ win \in 0 .. Size /\ excess \in 0 .. count
      /\ windowSize \in 0 .. Size
  BY DEF Inv, TypeOK, CirBufAssumption, MinOf
<1>2. /\ windowSize' = win /\ syncMode' = sync /\ readPos' = (readPos + excess) % Size
      /\ count' = count - excess /\ UNCHANGED <<buf, writePos, totalSize, unwritten>>
  BY DEF SetEffectiveWindow
<1>3. IF syncMode /\ (win > windowSize \/ ~sync) THEN TryWakeWriter ELSE KeepWriter
  BY DEF SetEffectiveWindow
<1>4. sync => excess = 0
  OBVIOUS
<1> HIDE DEF win, excess
<1>5. InStep' /\ readPos' \in 0 .. Size - 1
  BY <1>1, <1>2, HeadMoves
<1>8. /\ waiterChan' \in BOOLEAN /\ parked' \in BOOLEAN /\ OneWaiter' /\ (parked' => parked /\ KeepWriter)
  BY <1>3, Waking DEF Inv, WriterNotForgotten
<1>6. TypeOK' /\ totalSize' + unwritten' <= MaxTotal
  BY <1>1, <1>2, <1>5, <1>8 DEF Inv, TypeOK
<1>7. WriterNotForgotten'
  <2>1. ASSUME parked' PROVE syncMode' /\ count' >= windowSize'
    <3>1. parked /\ syncMode /\ count >= windowSize
      BY <1>8, <2>1 DEF Inv, WriterNotForgotten, ParkedOnlyWhenFull
    <3>2. ~TryWakeWriter
      BY <1>8, <2>1, <3>1 DEF Inv, WriterNotForgotten, OneWaiter, TryWakeWriter, TypeOK
    <3>3. ~(win > windowSize) /\ sync
      BY <1>3, <3>1, <3>2
    <3>4. count - excess >= win
      BY <1>1, <1>4, <3>1, <3>3
    <3> QED
      BY <1>2, <3>3, <3>4
  <2> QED
    BY <1>8, <2>1 DEF WriterNotForgotten, ParkedOnlyWhenFull
<1> QED
  BY <1>5, <1>6, <1>7 DEF Inv

(* The invariant is inductive.                                              *)
LEMMA InvHolds == ASSUME CirBufAssumption PROVE Spec => []Inv
<1>1. Init => Inv
  <2> SUFFICES ASSUME Init PROVE Inv
    OBVIOUS
  <2>1. TypeOK /\ totalSize + unwritten <= MaxTotal
    <3>1. Size \in Nat \ {0} /\ MaxWrite \in Nat \ {0} /\ MaxTotal \in Nat
      BY DEF CirBufAssumption
    <3>2. buf \in [0 .. Size - 1 -> -1 .. MaxTotal - 1]
      BY <3>1 DEF Init
    <3>3. waiterChan \in BOOLEAN /\ parked \in BOOLEAN /\ syncMode \in BOOLEAN
      BY DEF Init
    <3> QED
      BY <3>1, <3>2, <3>3 DEF Init, TypeOK
  <2>4. WriterNotForgotten
    BY DEF Init, WriterNotForgotten, OneWaiter, ParkedOnlyWhenFull
  <2>2. Slot(0) = 0
    BY ModNear DEF Slot, CirBufAssumption
  <2>3. InStep
    BY <2>2 DEF Init, InStep, HeadPos
  <2> QED
    BY <2>1, <2>3, <2>4 DEF Inv
<1>2. Inv /\ [Next]_vars => Inv'
  <2> SUFFICES ASSUME Inv, [Next]_vars PROVE Inv'
    OBVIOUS
  <2>1. CASE \E n \in 1 .. MaxWrite : NextSlice(n)
    BY <2>1, NextSliceKeeps
  <2>2. CASE WriteAvailable
    BY <2>2, WriteKeeps
  <2>3. CASE \E n \in 1 .. Size : Consume(n)
    BY <2>3, ConsumeKeeps
  <2>4. CASE \E s \in BOOLEAN, w \in 0 .. Size + 1 : SetEffectiveWindow(s, w)
    BY <2>4, SetWindowKeeps
  <2>5. CASE UNCHANGED vars
    <3>1. InStep'
      BY <2>5 DEF vars, Inv, InStep, HeadPos, Slot
    <3> QED
      BY <2>5, <3>1 DEF vars, Inv, TypeOK, WriterNotForgotten, OneWaiter, ParkedOnlyWhenFull
  <2> QED
    BY <2>1, <2>2, <2>3, <2>4, <2>5 DEF Next
<1> QED
  BY <1>1, <1>2, PTL DEF Spec

-----------------------------------------------------------------------------
(* What is promised                                                         *)

(* Every variable keeps its type, for every ring and slice size.            *)
THEOREM RingTypeCorrect == ASSUME CirBufAssumption PROVE Spec => []TypeOK
<1>1. Inv => TypeOK
  BY DEF Inv
<1> QED
  BY <1>1, InvHolds, PTL

(* A blocked writer has a channel somebody will close, and no room.         *)
THEOREM RingWriter == ASSUME CirBufAssumption PROVE Spec => []WriterNotForgotten
<1>1. Inv => WriterNotForgotten
  BY DEF Inv
<1> QED
  BY <1>1, InvHolds, PTL

(* What the abstract steps need to know of the ring: it is a run.           *)
Run == Held = Window!Positions(HeadPos, count)
Types == count \in Nat /\ HeadPos \in Int /\ totalSize = HeadPos + count

(* The reader always sees a run of positions.                               *)
LEMMA RunHolds == ASSUME CirBufAssumption PROVE Inv => Run /\ Types
<1>1. Inv => Types
  BY DEF Inv, TypeOK, InStep, Types, HeadPos, CirBufAssumption
<1> QED
  BY <1>1, HeldIs DEF Run

(* A write is a write of as many bytes to the queue of the newest.          *)
LEMMA WriteImplements ==
  ASSUME CirBufAssumption, Inv, Run, Types, Run', NEW n \in 1 .. unwritten, n = Accepted(unwritten),
         StoreBytes(n), UNCHANGED <<syncMode, windowSize>>
  PROVE  Window!Next
<1>1. /\ n \in Nat /\ n \in 1 .. MaxWrite /\ count \in Nat /\ HeadPos \in Int /\ windowSize \in Nat
      /\ totalSize = HeadPos + count
  BY DEF Inv, TypeOK, CirBufAssumption, Types
<1>2. syncMode => count + n <= windowSize
  <2>1. unwritten > 0 /\ n > 0
    BY DEF Inv, TypeOK, CirBufAssumption
  <2> QED
    BY <2>1, AcceptedFits
<1>3. Held \o Window!Positions(totalSize, n) = Window!Positions(HeadPos, count + n) /\ Len(Held) = count
  BY <1>1, Runs DEF Run
<1> DEFINE left == MinOf(count + n, windowSize)
<1>4. count' = left /\ totalSize' = totalSize + n /\ HeadPos' = HeadPos + (count + n) - left
  BY <1>1 DEF StoreBytes, HeadPos, MinOf
<1>5. Held' = Window!Positions(HeadPos + (count + n) - left, left)
  BY <1>4 DEF Run, Window!Positions
<1>6. Window!Newest(Window!Positions(HeadPos, count + n), windowSize) = Held'
  BY <1>1, <1>5, NewestRun
<1>7. Window!Write(n)
  BY <1>2, <1>3, <1>4, <1>6 DEF Window!Write
<1> QED
  BY <1>1, <1>7 DEF Window!Next

(* A consume takes as many from the front of the queue.                     *)
LEMMA ConsumeImplements ==
  ASSUME CirBufAssumption, Inv, Run, Types, Run', NEW n \in 1 .. Size, Consume(n)
  PROVE  Window!Next
<1>1. n \in Nat /\ count \in Nat /\ HeadPos \in Int /\ n <= count /\ totalSize = HeadPos + count
  BY DEF Consume, Types, CirBufAssumption
<1>2. count' = count - n /\ HeadPos' = HeadPos + n
  BY <1>1 DEF Consume, HeadPos
<1>3. Held' = Window!Positions(HeadPos + n, count - n)
  BY <1>2 DEF Run, Window!Positions
<1>4. Len(Held) = count /\ SubSeq(Held, n + 1, count) = Held'
  BY <1>1, <1>3, Runs DEF Run
<1>5. Window!Consume(n)
  BY <1>1, <1>4 DEF Window!Consume, Consume
<1> QED
  BY <1>5 DEF Window!Next

(* A new window, cut to the size of the ring, is the queue's.               *)
LEMMA SetWindowImplements ==
  ASSUME CirBufAssumption, Inv, Run, Types, Run', NEW sync \in BOOLEAN, NEW requested \in 0 .. Size + 1,
         SetEffectiveWindow(sync, requested)
  PROVE  Window!Next
<1> DEFINE win == MinOf(requested, Size)
           excess == IF ~sync /\ count > win THEN count - win ELSE 0
<1>1. win \in 0 .. Size /\ count \in Nat /\ HeadPos \in Int /\ totalSize = HeadPos + count /\ win \in Nat
  BY DEF Types, CirBufAssumption, MinOf
<1>2. windowSize' = win /\ syncMode' = sync /\ count' = count - excess /\ totalSize' = totalSize
  BY DEF SetEffectiveWindow
<1>3. HeadPos' = HeadPos + excess
  BY <1>1, <1>2 DEF HeadPos
<1>4. Held' = Window!Positions(HeadPos + excess, count - excess)
  BY <1>2, <1>3 DEF Run, Window!Positions
<1>5. Held' = IF sync THEN Held ELSE Window!Newest(Held, win)
  <2>1. CASE sync
    <3>1. excess = 0 /\ HeadPos + excess = HeadPos /\ count - excess = count
      BY <1>1, <2>1
    <3> QED
      BY <1>4, <2>1, <3>1 DEF Run
  <2>2. CASE ~sync
    <3>1. HeadPos + excess = HeadPos + count - MinOf(count, win) /\ count - excess = MinOf(count, win)
      BY <1>1, <2>2 DEF MinOf
    <3>2. Window!Newest(Held, win) = Window!Positions(HeadPos + count - MinOf(count, win), MinOf(count, win))
      BY <1>1, NewestRun DEF Run
    <3> QED
      BY <1>4, <2>2, <3>1, <3>2
  <2> QED
    BY <2>1, <2>2
<1>6. Window!SetWindow(sync, win)
  BY <1>2, <1>5 DEF Window!SetWindow
<1> QED
  BY <1>1, <1>6 DEF Window!Next

(* The ring implements the queue of the newest bytes, for every size.       *)
THEOREM RingImplementsWindow == ASSUME CirBufAssumption PROVE Spec => Refinement
<1>1. Init => Window!Init
  <2> SUFFICES ASSUME Init PROVE Window!Init
    OBVIOUS
  <2>1. Held = <<>>
    BY DEF Init, Held, PeekDataAt
  <2> QED
    BY <2>1 DEF Init, Window!Init
<1>2. Inv /\ (Run /\ Types) /\ (Run /\ Types)' /\ [Next]_vars => [Window!Next]_(Window!vars)
  <2> SUFFICES ASSUME Inv, Run, Types, Run', [Next]_vars PROVE [Window!Next]_(Window!vars)
    OBVIOUS
  <2>1. CASE WriteAvailable
    <3>1. Accepted(unwritten) \in 0 .. unwritten /\ unwritten \in Nat
      BY <2>1, AcceptedFits DEF WriteAvailable, Inv, TypeOK, CirBufAssumption
    <3>2. CASE Accepted(unwritten) > 0
      <4>1. Accepted(unwritten) \in 1 .. unwritten
        BY <3>1, <3>2
      <4> QED
        BY <2>1, <3>2, <4>1, WriteImplements DEF WriteAvailable
    <3>3. CASE Accepted(unwritten) = 0
      <4>1. UNCHANGED <<count, totalSize, syncMode, windowSize>>
        BY <2>1, <3>3 DEF WriteAvailable, ringVars
      <4> QED
        BY <4>1 DEF Run, HeadPos, Window!vars, Window!Positions
    <3> QED
      BY <3>1, <3>2, <3>3
  <2>2. CASE \E n \in 1 .. Size : Consume(n)
    BY <2>2, ConsumeImplements
  <2>3. CASE \E s \in BOOLEAN, w \in 0 .. Size + 1 : SetEffectiveWindow(s, w)
    BY <2>3, SetWindowImplements
  <2>4. CASE UNCHANGED vars \/ \E n \in 1 .. MaxWrite : NextSlice(n)
    <3>1. UNCHANGED <<count, totalSize, syncMode, windowSize>>
      BY <2>4 DEF vars, NextSlice, ringVars
    <3> QED
      BY <3>1 DEF Run, HeadPos, Window!vars, Window!Positions
  <2> QED
    BY <2>1, <2>2, <2>3, <2>4 DEF Next
<1> QED
  BY <1>1, <1>2, InvHolds, RunHolds, PTL DEF Spec, Refinement, Window!Spec

-----------------------------------------------------------------------------
(* The parts of the composition                                             *)

(* The constants of each component are as its proofs take them to be.       *)
LEMMA PartsAssumed ==
  /\ OP!JobOutputAssumption /\ QP!ReorderQueueAssumption /\ SP!SshConnAssumption
  /\ FP!PortForwardAssumption
  BY PartsAssumption
     DEF Out!JobOutputAssumption, OP!JobOutputAssumption, In!ReorderQueueAssumption,
         QP!ReorderQueueAssumption, In!IsFiniteSet, QP!IsFiniteSet, Ssh!SshConnAssumption, SP!SshConnAssumption,
         Fwd!PortForwardAssumption, FP!PortForwardAssumption

-----------------------------------------------------------------------------
(* The ring in the composition                                              *)

(* A behaviour of the composition is one of the ring.                       *)
LEMMA RingIsPart == SideSpec => Spec
<1>1. SideInit => Init
  BY DEF SideInit
<1>2. [SideNext]_allVars => [Next]_vars
  BY DEF SideNext, RingStep, OutputStep, InputStep, SshStep, ForwardStep, allVars
<1> QED
  BY <1>1, <1>2, PTL DEF SideSpec, Spec

(* In the composition too, a blocked writer has a channel somebody will     *)
(* close, and no room.                                                      *)
THEOREM SideRingWriter == SideSpec => []WriterNotForgotten
  BY RingIsPart, RingWriter, PartsAssumption, PTL

(* In the composition too, the ring is the queue of the newest bytes.       *)
THEOREM SideRingImplements == SideSpec => Refinement
  BY RingIsPart, RingImplementsWindow, PartsAssumption, PTL

-----------------------------------------------------------------------------
(* The readers and the output file                                          *)

(* The actions JobOutputProofs speaks of are those of JobOutput.            *)
LEMMA OutputSteps == ASSUME Out!Next PROVE OP!Next
  BY DEF Out!vars, Out!fileVars, Out!jobVars, Out!Position, Out!Packet, Out!MaybeStream, Out!Reader,
         Out!NoLoop, Out!NoAttempt, Out!MinOf, Out!Positions, Out!Dropped, Out!ResumePos,
         Out!FreeWindow, Out!AckOf, Out!Send, Out!Acked, Out!Listening, Out!RecvError,
         Out!RecvAhead, Out!RecvBehind, Out!Carries, Out!Blocked, Out!DrainsTo, Out!Ends,
         Out!AfterOrdered, Out!RecvOrdered, Out!RecvUnread, Out!RecvData, Out!CloseReaders,
         Out!CloseAcks, Out!AckDue, Out!LoopReadEnd, Out!LoopReadData, Out!EndLoop, Out!LoopAppend,
         Out!LoopSuperseded, Out!LoopFinish, Out!StartLoop, Out!NewStream, Out!StartJob,
         Out!RestartStreaming, Out!Return, Out!Started, Out!Failed, Out!Prepared, Out!UpdateNextSeq,
         Out!AlreadyDone, Out!Flush, Out!LinkDown, Out!Crash, Out!Corked, Out!Next, OP!vars,
         OP!fileVars, OP!jobVars, OP!Position, OP!Packet, OP!MaybeStream, OP!Reader, OP!NoLoop,
         OP!NoAttempt, OP!MinOf, OP!Positions, OP!Dropped, OP!ResumePos, OP!FreeWindow, OP!AckOf,
         OP!Send, OP!Acked, OP!Listening, OP!RecvError, OP!RecvAhead, OP!RecvBehind, OP!Carries,
         OP!Blocked, OP!DrainsTo, OP!Ends, OP!AfterOrdered, OP!RecvOrdered, OP!RecvUnread,
         OP!RecvData, OP!CloseReaders, OP!CloseAcks, OP!AckDue, OP!LoopReadEnd, OP!LoopReadData,
         OP!EndLoop, OP!LoopAppend, OP!LoopSuperseded, OP!LoopFinish, OP!StartLoop, OP!NewStream,
         OP!StartJob, OP!RestartStreaming, OP!Return, OP!Started, OP!Failed, OP!Prepared,
         OP!UpdateNextSeq, OP!AlreadyDone, OP!Flush, OP!LinkDown, OP!Crash, OP!Corked, OP!Next

(* A behaviour of the composition is one of the readers and the output file.*)
LEMMA OutputIsPart == SideSpec => OP!Spec
<1>1. SideInit => OP!Init
  BY DEF SideInit, Out!Init, OP!Init, Out!Reader, OP!Reader, Out!NoLoop, OP!NoLoop, Out!NoAttempt, OP!NoAttempt
<1>2. [SideNext]_allVars => [OP!Next]_(OP!vars)
  BY OutputSteps
     DEF SideNext, RingStep, OutputStep, InputStep, SshStep, ForwardStep, allVars, outVars,
         OP!vars, OP!fileVars, OP!jobVars
<1> QED
  BY <1>1, <1>2, PTL DEF SideSpec, OP!Spec

(* The output file holds the bytes of the stream in order, its size and gap *)
(* name the next byte to be stored, and a resume asks for a position past   *)
(* all of them, after a crash too.                                          *)
THEOREM SideFileInOrder == SideSpec => []FileInOrder
<1>1. OP!FileInOrder /\ OP!NextByteFollows /\ OP!ResumePastFile => FileInOrder
  BY DEF FileInOrder, Out!FileInOrder, OP!FileInOrder, Out!NextByteFollows, OP!NextByteFollows,
         Out!ResumePastFile, OP!ResumePastFile, Out!InFlight, OP!InFlight, Out!ResumePos, OP!ResumePos
<1> QED
  BY <1>1, OutputIsPart, OP!OutputInOrder, OP!NextByteIsNext, OP!ResumeIsPast, PartsAssumed, PTL

-----------------------------------------------------------------------------
(* The input queue                                                          *)

(* What the methods of the queue share is the same for both.                *)
LEMMA InputFunctions ==
  /\ In!Item = QP!Item /\ In!Unseen = QP!Unseen /\ In!NoTimer = QP!NoTimer
  /\ \A S : In!Sorted(S) = QP!Sorted(S)
  /\ \A S : In!Max(S) = QP!Max(S) /\ In!Min(S) = QP!Min(S)
  /\ \A S : In!Cardinality(S) = QP!Cardinality(S)
  /\ \A q : In!ToSet(q) = QP!ToSet(q)
  /\ \A x, y : In!Before(x, y) <=> QP!Before(x, y)
  /\ In!HasRoom <=> QP!HasRoom
  /\ \A stop, hold : In!SetTimer(stop, hold) <=> QP!SetTimer(stop, hold)
  /\ \A n : In!Following(n) = QP!Following(n)
<1>1. In!Item = QP!Item /\ In!Unseen = QP!Unseen /\ In!NoTimer = QP!NoTimer
  BY DEF In!Item, QP!Item, In!Unseen, QP!Unseen, In!NoTimer, QP!NoTimer
<1>2. \A x, y : In!Before(x, y) <=> QP!Before(x, y)
  BY DEF In!Before, QP!Before
<1>3. \A S : In!Cardinality(S) = QP!Cardinality(S)
  BY DEF In!Cardinality, QP!Cardinality
<1>4. \A S : In!SetToSeqs(S) = QP!SetToSeqs(S)
  BY <1>3, Zenon DEF In!SetToSeqs, QP!SetToSeqs, In!IsInjective, QP!IsInjective
<1>5. \A S : In!Sorted(S) = QP!Sorted(S)
  BY <1>4, Zenon DEF In!Sorted, QP!Sorted, In!Before, QP!Before
<1>6. \A S : In!Max(S) = QP!Max(S) /\ In!Min(S) = QP!Min(S)
  BY Zenon DEF In!Max, QP!Max, In!Min, QP!Min
<1>7. \A q : In!ToSet(q) = QP!ToSet(q)
  BY DEF In!ToSet, QP!ToSet
<1>8. In!HasRoom <=> QP!HasRoom
  BY <1>3 DEF In!HasRoom, QP!HasRoom, In!Waiting, QP!Waiting
<1>9. \A stop, hold : In!SetTimer(stop, hold) <=> QP!SetTimer(stop, hold)
  BY DEF In!SetTimer, QP!SetTimer, In!Stopped, QP!Stopped, In!NoTimer, QP!NoTimer
<1>10. \A n : In!Following(n) = QP!Following(n)
  BY <1>5, <1>6, Zenon DEF In!Following, QP!Following
<1> QED
  BY <1>1, <1>2, <1>3, <1>5, <1>6, <1>7, <1>8, <1>9, <1>10

(* The actions ReorderQueueProofs speaks of are those of ReorderQueue.      *)
LEMMA InputSteps == ASSUME In!Next PROVE QP!Next
<1>1. In!Refuse => QP!Refuse
  BY InputFunctions DEF In!Refuse, QP!Refuse
<1>2. \A it : In!FirstOfSession(it) => QP!FirstOfSession(it)
  BY InputFunctions, Zenon DEF In!FirstOfSession, QP!FirstOfSession
<1>3. \A it : In!Known(it) <=> QP!Known(it)
  BY InputFunctions DEF In!Known, QP!Known
<1>4. In!Expected = QP!Expected
  BY DEF In!Expected, QP!Expected
<1>5. \A it : In!LateItem(it) => QP!LateItem(it)
  BY <1>3, <1>4, InputFunctions, Zenon DEF In!LateItem, QP!LateItem
<1>6. \A it : In!ItemInTurn(it) => QP!ItemInTurn(it)
  BY <1>3, <1>4, InputFunctions, Zenon DEF In!ItemInTurn, QP!ItemInTurn
<1>7. \A it : In!ItemAhead(it) => QP!ItemAhead(it)
  BY <1>3, <1>4, InputFunctions, Zenon DEF In!ItemAhead, QP!ItemAhead
<1>8. \A i : In!QueueItem(i) => QP!QueueItem(i)
  BY <1>1, <1>2, <1>5, <1>6, <1>7, InputFunctions, Zenon
     DEF In!QueueItem, QP!QueueItem, In!SessionsApart, QP!SessionsApart
<1>9. \A d : In!OnTimeout(d) => QP!OnTimeout(d)
  <2>1. In!TimedOut = QP!TimedOut
    BY DEF In!TimedOut, QP!TimedOut
  <2>2. In!Flushed = QP!Flushed
    BY <2>1, InputFunctions DEF In!Flushed, QP!Flushed
  <2>3. In!Left = QP!Left
    BY <2>2 DEF In!Left, QP!Left
  <2>4. In!NextDue = QP!NextDue
    BY <2>3, InputFunctions, Zenon DEF In!NextDue, QP!NextDue
  <2>5. In!NextTimer = QP!NextTimer
    BY <2>3, <2>4, InputFunctions, Zenon DEF In!NextTimer, QP!NextTimer
  <2> QED
    BY <2>2, <2>3, <2>4, <2>5, InputFunctions, Zenon DEF In!OnTimeout, QP!OnTimeout
<1>10. \A d : In!OnTimeoutClosed(d) => QP!OnTimeoutClosed(d)
  BY DEF In!OnTimeoutClosed, QP!OnTimeoutClosed
<1>11. In!Close => QP!Close
  BY InputFunctions DEF In!Close, QP!Close
<1>12. In!Take \/ In!Tick \/ In!TimeUp => QP!Take \/ QP!Tick \/ QP!TimeUp
  BY DEF In!Take, QP!Take, In!Tick, QP!Tick, In!TimeUp, QP!TimeUp, In!Waiting, QP!Waiting, In!vars, QP!vars
<1> QED
  BY <1>8, <1>9, <1>10, <1>11, <1>12, Zenon DEF In!Next, QP!Next

(* A behaviour of the composition is one of the input queue.                *)
LEMMA InputIsPart == SideSpec => QP!Spec
<1>1. SideInit => QP!Init
  BY DEF SideInit, In!Init, QP!Init, In!Unseen, QP!Unseen, In!NoTimer, QP!NoTimer
<1>2. [SideNext]_allVars => [QP!Next]_(QP!vars)
  BY InputSteps
     DEF SideNext, RingStep, OutputStep, InputStep, SshStep, ForwardStep, allVars, inVars, QP!vars
<1> QED
  BY <1>1, <1>2, PTL DEF SideSpec, QP!Spec

(* No send on the input channel blocks under the queue's lock.              *)
THEOREM SideSendsNeverBlock == SideSpec => []SendsNeverBlock
<1>1. QP!SendsNeverBlock => SendsNeverBlock
  BY InputFunctions DEF SendsNeverBlock, In!SendsNeverBlock, QP!SendsNeverBlock, In!Waiting, QP!Waiting
<1> QED
  BY <1>1, InputIsPart, QP!RoomForAll, PartsAssumed, PTL

(* Input that was accepted is held or was sent once, and leaves in order,   *)
(* within a session and between sessions, but for what came too late.       *)
THEOREM SideInputInOrder == SideSpec => []InputInOrder
<1>1. QP!EachOnce /\ QP!InOrder /\ QP!SessionsInOrder => InputInOrder
  <2>1. QP!EachOnce => In!EachOnce
    BY InputFunctions DEF In!EachOnce, QP!EachOnce
  <2>2. \A x : QP!CameTooLate(x) <=> In!CameTooLate(x)
    BY DEF In!CameTooLate, QP!CameTooLate
  <2>3. QP!InOrder => In!InOrder
    BY <2>2 DEF In!InOrder, QP!InOrder
  <2>4. QP!SessionsInOrder => In!SessionsInOrder
    BY DEF In!SessionsInOrder, QP!SessionsInOrder
  <2> QED
    BY <2>1, <2>3, <2>4 DEF InputInOrder
<1> QED
  BY <1>1, InputIsPart, QP!NothingLost, QP!InputInOrderHolds, PartsAssumed, PTL

(* Nothing is held beyond the timeout, whatever timers come late.           *)
THEOREM SideHeldUntilTimeout == SideSpec => []HeldUntilTimeout
<1>1. QP!HeldUntilTimeout => HeldUntilTimeout
  BY DEF HeldUntilTimeout, In!HeldUntilTimeout, QP!HeldUntilTimeout
<1> QED
  BY <1>1, InputIsPart, QP!TimerIsInTime, PartsAssumed, PTL

-----------------------------------------------------------------------------
(* The SSH connection                                                       *)

(* The actions SshConnProofs speaks of are those of SshConn.                *)
LEMMA SshSteps == ASSUME Ssh!Next PROVE SP!Next
  BY DEF Ssh!connVars, Ssh!netVars, Ssh!helperVars, Ssh!vars, Ssh!Ids, Ssh!Loops, Ssh!User,
         Ssh!Busy, Ssh!Holding, Ssh!LifecycleFree, Ssh!Calls, Ssh!Moves, Ssh!Cut, Ssh!Detach,
         Ssh!UserConnects, Ssh!ConnectBegins, Ssh!ConnectArms, Ssh!DialSucceeds, Ssh!DialFails,
         Ssh!SetUp, Ssh!StartsHelper, Ssh!SetUpAtOnce, Ssh!BeginInstall, Ssh!InstallInTime,
         Ssh!HandOff, Ssh!StartAfterInstall, Ssh!PollsInTime, Ssh!ConnectSucceeds, Ssh!ConnectFails,
         Ssh!ConnectReturns, Ssh!InstallSteps, Ssh!InstallReturns, Ssh!CopyEnds, Ssh!InstallClaims,
         Ssh!InstallPolls, Ssh!InstallStarts, Ssh!InstallSets, Ssh!HelperEnds, Ssh!ClientEnds,
         Ssh!ClientCloses, Ssh!ClientLost, Ssh!MaybeReconnect, Ssh!LoopSteps, Ssh!LoopTries,
         Ssh!LoopStops, Ssh!LoopHears, Ssh!LoopEnds, Ssh!CloseBegins, Ssh!CloseClears,
         Ssh!CloseAborts, Ssh!LastWord, Ssh!CloseEnds, Ssh!AtRest, Ssh!Next, SP!connVars,
         SP!netVars, SP!helperVars, SP!vars, SP!Ids, SP!Loops, SP!User, SP!Busy, SP!Holding,
         SP!LifecycleFree, SP!Calls, SP!Moves, SP!Cut, SP!Detach, SP!UserConnects, SP!ConnectBegins,
         SP!ConnectArms, SP!DialSucceeds, SP!DialFails, SP!SetUp, SP!StartsHelper, SP!SetUpAtOnce,
         SP!BeginInstall, SP!InstallInTime, SP!HandOff, SP!StartAfterInstall, SP!PollsInTime,
         SP!ConnectSucceeds, SP!ConnectFails, SP!ConnectReturns, SP!InstallSteps, SP!InstallReturns,
         SP!CopyEnds, SP!InstallClaims, SP!InstallPolls, SP!InstallStarts, SP!InstallSets,
         SP!HelperEnds, SP!ClientEnds, SP!ClientCloses, SP!ClientLost, SP!MaybeReconnect,
         SP!LoopSteps, SP!LoopTries, SP!LoopStops, SP!LoopHears, SP!LoopEnds, SP!CloseBegins,
         SP!CloseClears, SP!CloseAborts, SP!LastWord, SP!CloseEnds, SP!AtRest, SP!Next

(* A behaviour of the composition is one of the connection.                 *)
LEMMA SshIsPart == SideSpec => SP!Spec
<1>1. SideInit => SP!Init
  BY DEF SideInit, Ssh!Init, SP!Init, Ssh!Ids, SP!Ids, Ssh!Loops, SP!Loops, Ssh!User, SP!User
<1>2. [SideNext]_allVars => [SP!Next]_(SP!vars)
  BY SshSteps
     DEF SideNext, RingStep, OutputStep, InputStep, SshStep, ForwardStep, allVars, sshVars,
         SP!vars, SP!connVars, SP!netVars, SP!helperVars
<1> QED
  BY <1>1, <1>2, PTL DEF SideSpec, SP!Spec

(* Status, monitor and helper are those of the client the connection has,   *)
(* and every other client that is up is being closed.                       *)
THEOREM SideHandlesBelong == SideSpec => []HandlesBelong
<1>1. SP!HandlesBelong => HandlesBelong
  BY DEF HandlesBelong, Ssh!HandlesBelong, SP!HandlesBelong, Ssh!LifecycleFree, SP!LifecycleFree,
         Ssh!HelperStartedOnce, SP!HelperStartedOnce, Ssh!Holding, SP!Holding, Ssh!Ids, SP!Ids
<1> QED
  BY <1>1, SshIsPart, SP!SshHandlesBelong, PartsAssumed, PTL

(* A connection the user closed does not come back by itself.               *)
THEOREM SideClosedStaysClosed == SideSpec => []ClosedStaysClosed
<1>1. SP!ClosedStaysClosed => ClosedStaysClosed
  BY DEF ClosedStaysClosed, Ssh!ClosedStaysClosed, SP!ClosedStaysClosed, Ssh!Ids, SP!Ids, Ssh!Busy, SP!Busy,
         Ssh!User, SP!User, Ssh!Loops, SP!Loops
<1> QED
  BY <1>1, SshIsPart, SP!SshClosedStaysClosed, PartsAssumed, PTL

-----------------------------------------------------------------------------
(* The port forwards                                                        *)

(* What the methods share under the lock is the same for both.              *)
LEMMA ForwardFunctions ==
  /\ Fwd!lookup = FP!lookup /\ Fwd!pending = FP!pending
  /\ Fwd!Sessions = FP!Sessions /\ Fwd!Forwards = FP!Forwards
  /\ \A f : Fwd!State(f) = FP!State(f)
  /\ \A f, m : Fwd!Commits(f, m) <=> FP!Commits(f, m)
  /\ \A m, st : Fwd!statusLocked(m, st) = FP!statusLocked(m, st)
  /\ \A m, S : Fwd!deactivateLocked(m, S) = FP!deactivateLocked(m, S)
  /\ \A f, m : Fwd!refreshLocked(f, m) = FP!refreshLocked(f, m)
  /\ \A f, m : Fwd!removeLocked(f, m) = FP!removeLocked(f, m)
  /\ \A f, c, ended, m : Fwd!dialFailed(f, c, ended, m) = FP!dialFailed(f, c, ended, m)
  /\ \A s, m : Fwd!Leaves(s, m) = FP!Leaves(s, m)
<1>1. /\ Fwd!lookup = FP!lookup /\ Fwd!pending = FP!pending
      /\ Fwd!Sessions = FP!Sessions /\ Fwd!Forwards = FP!Forwards
  BY DEF Fwd!lookup, FP!lookup, Fwd!pending, FP!pending, Fwd!Sessions, FP!Sessions, Fwd!Forwards, FP!Forwards
<1>2. \A f : Fwd!State(f) = FP!State(f)
  BY DEF Fwd!State, FP!State
<1>3. \A f, m : Fwd!Commits(f, m) <=> FP!Commits(f, m)
  BY DEF Fwd!Commits, FP!Commits
<1>4. \A m, st : Fwd!statusLocked(m, st) = FP!statusLocked(m, st)
  BY DEF Fwd!statusLocked, FP!statusLocked
<1>5. \A m, S : Fwd!deactivateLocked(m, S) = FP!deactivateLocked(m, S)
  BY DEF Fwd!deactivateLocked, FP!deactivateLocked, Fwd!Sessions, FP!Sessions, Fwd!Cardinality, FP!Cardinality
<1>6. \A f, m : Fwd!dropSessions(f, m) = FP!dropSessions(f, m)
  BY <1>5 DEF Fwd!dropSessions, FP!dropSessions, Fwd!Sessions, FP!Sessions
<1>7. \A f, m : Fwd!refreshLocked(f, m) = FP!refreshLocked(f, m)
  BY <1>1, <1>4, <1>6, Zenon DEF Fwd!refreshLocked, FP!refreshLocked
<1>8. \A f, m : Fwd!removeLocked(f, m) = FP!removeLocked(f, m)
  BY <1>6 DEF Fwd!removeLocked, FP!removeLocked
<1>9. \A f, c, ended, m : Fwd!dialFailed(f, c, ended, m) = FP!dialFailed(f, c, ended, m)
  BY <1>1, <1>4, <1>7, Zenon DEF Fwd!dialFailed, FP!dialFailed
<1>10. \A s, m : Fwd!Leaves(s, m) = FP!Leaves(s, m)
  BY DEF Fwd!Leaves, FP!Leaves
<1> QED
  BY <1>1, <1>2, <1>3, <1>4, <1>5, <1>7, <1>8, <1>9, <1>10

(* The actions of a forward or a session.                                   *)
LEMMA SessionSteps ==
  ASSUME NEW s
  PROVE  /\ Fwd!Start(s) => FP!Start(s)
         /\ Fwd!listenerFailed(s) => FP!listenerFailed(s)
         /\ Fwd!accept(s) => FP!accept(s)
         /\ Fwd!DialConnects(s) => FP!DialConnects(s)
         /\ Fwd!DialFails(s) => FP!DialFails(s)
         /\ Fwd!DialDrops(s) => FP!DialDrops(s)
         /\ Fwd!dialFinished(s) => FP!dialFinished(s)
         /\ Fwd!TimesOut(s) => FP!TimesOut(s)
         /\ Fwd!ServeWaits(s) => FP!ServeWaits(s)
         /\ Fwd!ServeGets(s) => FP!ServeGets(s)
         /\ Fwd!activate(s) => FP!activate(s)
         /\ Fwd!RelayEnds(s) => FP!RelayEnds(s)
         /\ Fwd!finish(s) => FP!finish(s)
<1>1. Fwd!Start(s) => FP!Start(s)
  BY ForwardFunctions DEF Fwd!Start, FP!Start
<1>2. Fwd!listenerFailed(s) => FP!listenerFailed(s)
  BY ForwardFunctions, Zenon DEF Fwd!listenerFailed, FP!listenerFailed
<1>3. Fwd!accept(s) => FP!accept(s)
  BY ForwardFunctions, Zenon DEF Fwd!accept, FP!accept
<1>4. Fwd!DialConnects(s) => FP!DialConnects(s)
  BY ForwardFunctions DEF Fwd!DialConnects, FP!DialConnects
<1>5. Fwd!DialFails(s) => FP!DialFails(s)
  BY ForwardFunctions, Zenon DEF Fwd!DialFails, FP!DialFails, Fwd!dialEnded, FP!dialEnded
<1>6. Fwd!DialDrops(s) => FP!DialDrops(s)
  BY DEF Fwd!DialDrops, FP!DialDrops, Fwd!dialEnded, FP!dialEnded
<1>7. Fwd!dialFinished(s) => FP!dialFinished(s)
  BY DEF Fwd!dialFinished, FP!dialFinished, Fwd!Sets, FP!Sets
<1>8. Fwd!TimesOut(s) => FP!TimesOut(s)
  BY DEF Fwd!TimesOut, FP!TimesOut, Fwd!Sets, FP!Sets, Fwd!dialEnded, FP!dialEnded
<1>9. Fwd!ServeWaits(s) => FP!ServeWaits(s)
  BY ForwardFunctions, Zenon DEF Fwd!ServeWaits, FP!ServeWaits, Fwd!dialEnded, FP!dialEnded
<1>10. Fwd!ServeGets(s) => FP!ServeGets(s)
  BY ForwardFunctions, Zenon DEF Fwd!ServeGets, FP!ServeGets, Fwd!dialEnded, FP!dialEnded
<1>11. Fwd!activate(s) => FP!activate(s)
  BY ForwardFunctions, Zenon DEF Fwd!activate, FP!activate
<1>12. Fwd!RelayEnds(s) => FP!RelayEnds(s)
  BY ForwardFunctions, Zenon DEF Fwd!RelayEnds, FP!RelayEnds
<1>13. Fwd!finish(s) => FP!finish(s)
  BY ForwardFunctions, Zenon DEF Fwd!finish, FP!finish
<1> QED
  BY <1>1, <1>2, <1>3, <1>4, <1>5, <1>6, <1>7, <1>8, <1>9, <1>10, <1>11, <1>12, <1>13

(* The actions PortForwardProofs speaks of are those of PortForward.        *)
LEMMA ForwardSteps == ASSUME Fwd!Next PROVE FP!Next
<1>1. Fwd!ConnChanges => FP!ConnChanges
  BY DEF Fwd!ConnChanges, FP!ConnChanges, Fwd!fwdVars, FP!fwdVars
<1>2. Fwd!Refresh => FP!Refresh
  BY ForwardFunctions DEF Fwd!Refresh, FP!Refresh
<1>3. Fwd!Stop => FP!Stop
  BY ForwardFunctions DEF Fwd!Stop, FP!Stop
<1>4. Fwd!shutdown => FP!shutdown
  BY ForwardFunctions DEF Fwd!shutdown, FP!shutdown
<1>5. Fwd!WorkersEnded => FP!WorkersEnded
  BY ForwardFunctions DEF Fwd!WorkersEnded, FP!WorkersEnded, Fwd!vars, FP!vars, Fwd!fwdVars, FP!fwdVars
<1> QED
  BY <1>1, <1>2, <1>3, <1>4, <1>5, SessionSteps, ForwardFunctions, Zenon DEF Fwd!Next, FP!Next

(* A behaviour of the composition is one of the port forwards.              *)
LEMMA ForwardsArePart == SideSpec => FP!Spec
<1>1. SideInit => FP!Init
  BY DEF SideInit, Fwd!Init, FP!Init, Fwd!Sessions, FP!Sessions, Fwd!Forwards, FP!Forwards
<1>2. [SideNext]_allVars => [FP!Next]_(FP!vars)
  BY ForwardSteps
     DEF SideNext, RingStep, OutputStep, InputStep, SshStep, ForwardStep, allVars, fwdVars,
         FP!vars, FP!fwdVars
<1> QED
  BY <1>1, <1>2, PTL DEF SideSpec, FP!Spec

(* Sessions and dials are counted right and leave no connection open.       *)
THEOREM SideSessionsAccounted == SideSpec => []SessionsAccounted
<1>1. FP!SessionsAccounted => SessionsAccounted
  BY DEF SessionsAccounted, Fwd!SessionsAccounted, FP!SessionsAccounted, Fwd!Cardinality, FP!Cardinality,
         Fwd!Sessions, FP!Sessions, Fwd!Forwards, FP!Forwards
<1> QED
  BY <1>1, ForwardsArePart, FP!SessionsAreAccounted, PartsAssumed, PTL

(* What relays belongs to the forward listed and the client it has.         *)
THEOREM SideRelaysBelong == SideSpec => []RelaysBelong
<1>1. FP!RelaysBelong => RelaysBelong
  BY ForwardFunctions DEF RelaysBelong, Fwd!RelaysBelong, FP!RelaysBelong
<1> QED
  BY <1>1, ForwardsArePart, FP!RelaysAreBelonging, PartsAssumed, PTL

-----------------------------------------------------------------------------
(* Types                                                                    *)

(* Every variable of every part keeps its type.                             *)
THEOREM SideTypeCorrect == SideSpec => []SideTypeOK
<1>1. OP!TypeOK => Out!TypeOK
  BY Zenon
     DEF Out!TypeOK, OP!TypeOK, Out!ReaderType, OP!ReaderType, Out!LoopPcs, OP!LoopPcs,
         Out!LoopType, OP!LoopType, Out!MaybeStream, OP!MaybeStream, Out!AttemptType,
         OP!AttemptType, Out!Bytes, OP!Bytes, Out!AckType, OP!AckType, Out!Packet, OP!Packet,
         Out!Position, OP!Position
<1>2. QP!TypeOK => In!TypeOK
  BY InputFunctions, Zenon DEF In!TypeOK, QP!TypeOK
<1>3. SP!TypeOK => Ssh!TypeOK
  BY Zenon
     DEF Ssh!TypeOK, SP!TypeOK, Ssh!Statuses, SP!Statuses, Ssh!Ids, SP!Ids, Ssh!Loops, SP!Loops,
         Ssh!Loop, SP!Loop, Ssh!Call, SP!Call, Ssh!Closer, SP!Closer, Ssh!Install, SP!Install,
         Ssh!CallPcs, SP!CallPcs, Ssh!LoopPcs, SP!LoopPcs, Ssh!InstallPcs, SP!InstallPcs,
         Ssh!User, SP!User
<1>4. FP!TypeOK => Fwd!TypeOK
  BY Zenon
     DEF Fwd!TypeOK, FP!TypeOK, Fwd!Clients, FP!Clients, Fwd!Statuses, FP!Statuses, Fwd!Forwards,
         FP!Forwards, Fwd!Sessions, FP!Sessions
<1>5. TypeOK /\ OP!TypeOK /\ QP!TypeOK /\ SP!TypeOK /\ FP!TypeOK => SideTypeOK
  BY <1>1, <1>2, <1>3, <1>4 DEF SideTypeOK
<1> QED
  BY <1>5, RingIsPart, OutputIsPart, InputIsPart, SshIsPart, ForwardsArePart, RingTypeCorrect,
     OP!OutputTypeCorrect, QP!QueueTypeCorrect, SP!SshTypeCorrect, FP!ForwardTypeCorrect,
     PartsAssumed, PartsAssumption, PTL
=============================================================================
