--------------------------- MODULE DurableOutput ---------------------------
(***************************************************************************)
(* What the durable output path promises, whatever happens between the     *)
(* remote PTY and the local file: the file holds the bytes the PTY         *)
(* produced, in order, none twice and none invented; bytes that are        *)
(* missing are counted; and a crash of the local server takes file and     *)
(* count back together, to a state they had before.                        *)
(***************************************************************************)
EXTENDS Integers, Sequences

CONSTANT MaxPos    \* bound of the model: bytes the PTY ever produces

VARIABLES
  produced,   \* bytes the PTY has produced
  file,       \* the output file: positions in the PTY's stream
  missing,    \* bytes counted as missing
  saved       \* what a crash falls back to: [len, gap]

vars == <<produced, file, missing, saved>>

Init ==
  /\ produced = 0
  /\ file = <<>>
  /\ missing = 0
  /\ saved = [len |-> 0, gap |-> 0]

NextPos == Len(file) + missing

Produce ==
  /\ produced' \in produced + 1 .. MaxPos
  /\ UNCHANGED <<file, missing, saved>>

(* The next n bytes of the stream reach the file.                           *)
Store(n) ==
  /\ NextPos + n <= produced
  /\ file' = file \o [i \in 1 .. n |-> NextPos + i - 1]
  /\ UNCHANGED <<produced, missing, saved>>

(* The next n bytes of the stream are given up, and counted.                *)
Skip(n) ==
  /\ NextPos + n <= produced
  /\ missing' = missing + n
  /\ UNCHANGED <<produced, file, saved>>

Save ==
  /\ saved' = [len |-> Len(file), gap |-> missing]
  /\ UNCHANGED <<produced, file, missing>>

FallBack ==
  /\ file' = SubSeq(file, 1, saved.len)
  /\ missing' = saved.gap
  /\ UNCHANGED <<produced, saved>>

Next ==
  \/ Produce
  \/ \E n \in 1 .. MaxPos : Store(n) \/ Skip(n)
  \/ Save
  \/ FallBack

Spec == Init /\ [][Next]_vars
=============================================================================
