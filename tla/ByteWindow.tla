----------------------------- MODULE ByteWindow -----------------------------
(***************************************************************************)
(* What the output buffer of a job manager promises, with no ring: a queue *)
(* of the newest bytes of a stream.  A byte is named by its position in    *)
(* the stream.  A writer appends at the end; the front is dropped by       *)
(* consuming, or by writing past the window in async mode.  In sync mode a *)
(* write never drops anything.                                             *)
(***************************************************************************)
EXTENDS Integers, Sequences

CONSTANTS
  Size,      \* capacity in bytes
  MaxWrite   \* the most bytes one write offers

VARIABLES
  held,    \* the bytes held, oldest first
  total,   \* bytes ever written
  sync,    \* TRUE: a full window refuses writes; FALSE: it drops the oldest
  window   \* how many bytes may be held

vars == <<held, total, sync, window>>

Init ==
  /\ held = <<>>
  /\ total = 0
  /\ sync \in BOOLEAN
  /\ window = Size

Positions(from, n) == [i \in 1 .. n |-> from + i - 1]

Newest(s, n) == IF Len(s) <= n THEN s ELSE SubSeq(s, Len(s) - n + 1, Len(s))

(* n new bytes enter; none is refused in async mode, in sync mode only as   *)
(* many as fit.                                                             *)
Write(n) ==
  /\ sync => Len(held) + n <= window
  /\ held' = Newest(held \o Positions(total, n), window)
  /\ total' = total + n
  /\ UNCHANGED <<sync, window>>

Consume(n) ==
  /\ n <= Len(held)
  /\ held' = SubSeq(held, n + 1, Len(held))
  /\ UNCHANGED <<total, sync, window>>

SetWindow(s, w) ==
  /\ sync' = s
  /\ window' = w
  /\ held' = IF s THEN held ELSE Newest(held, w)
  /\ UNCHANGED total

Next ==
  \/ \E n \in 1 .. MaxWrite : Write(n)
  \/ \E n \in 1 .. Size : Consume(n)
  \/ \E s \in BOOLEAN, w \in 0 .. Size : SetWindow(s, w)

Spec == Init /\ [][Next]_vars
=============================================================================
