------------------------------- MODULE JobSide -------------------------------
(***************************************************************************)
(* Components a durable job's output and input pass through, each by       *)
(* itself: the ring, the readers with the output file, the reorder queue,  *)
(* the SSH connection the job is reached over and the port forwards of     *)
(* this connection.  `part` says which of them a behaviour is about and    *)
(* never changes, so that their states add up instead of multiplying;      *)
(* DurableStream.tla joins those that interact.                            *)
(***************************************************************************)
EXTENDS CirBuf

CONSTANTS
  Streams, NoStream, RWnd, ReadSize, AckFraction, MaxPacket, MaxPos,
  InputSessions, NoSession, Cap, Timeout, Inputs, MaxTime,
  MaxConnects, MaxLoops, MaxCloses, Installs,
  MaxForwards, MaxSessions, MaxClients, SessionLimit, DialLimit

VARIABLES
  part,
  rd, loop, cur, att, used, file, gap, disk, streamDone, streamErr, link, outAcks,
  sessionOrder, current, nextSeq, buffer, log, taken, timer, running, closed, accepted,
  arrived, now,
  status, client, monitor, controller, connectAbort, reconnect, alive, closing, connects,
  waiters, loops, close, installs, installCancel, wshInstalling, starts, down,
  conn, hungUp, live, forwards, sessions, sessionCount, dialCount, fwdClosed

Out == INSTANCE JobOutput WITH acks <- outAcks
In == INSTANCE ReorderQueue WITH Sessions <- InputSessions
Ssh == INSTANCE SshConn
Fwd == INSTANCE PortForward WITH closed <- fwdClosed

ASSUME PartsAssumption ==
  /\ CirBufAssumption /\ Out!JobOutputAssumption /\ In!ReorderQueueAssumption
  /\ Ssh!SshConnAssumption /\ Fwd!PortForwardAssumption

outVars == <<rd, loop, cur, att, used, file, gap, disk, streamDone, streamErr, link>>
inVars == <<sessionOrder, current, nextSeq, buffer, log, taken, timer, running, closed,
            accepted, arrived, now>>
sshVars == <<status, client, monitor, controller, connectAbort, reconnect, alive, closing,
             connects, waiters, loops, close, installs, installCancel, wshInstalling, starts, down>>
fwdVars == <<conn, hungUp, live, forwards, sessions, sessionCount, dialCount, fwdClosed>>
allVars == <<part, vars, outVars, outAcks, inVars, sshVars, fwdVars>>

SideInit ==
  /\ part \in {"ring", "output", "input", "ssh", "forwards"}
  /\ Init /\ Out!Init /\ In!Init /\ Ssh!Init /\ Fwd!Init
  /\ part # "ring" => syncMode

RingStep ==
  part = "ring" /\ Next /\ UNCHANGED <<part, outVars, outAcks, inVars, sshVars, fwdVars>>
OutputStep ==
  part = "output" /\ Out!Next /\ UNCHANGED <<part, vars, inVars, sshVars, fwdVars>>
InputStep ==
  part = "input" /\ In!Next /\ UNCHANGED <<part, vars, outVars, outAcks, sshVars, fwdVars>>
SshStep ==
  part = "ssh" /\ Ssh!Next /\ UNCHANGED <<part, vars, outVars, outAcks, inVars, fwdVars>>
ForwardStep ==
  part = "forwards" /\ Fwd!Next /\ UNCHANGED <<part, vars, outVars, outAcks, inVars, sshVars>>

SideNext == RingStep \/ OutputStep \/ InputStep \/ SshStep \/ ForwardStep

SideSpec == SideInit /\ [][SideNext]_allVars

-----------------------------------------------------------------------------
(* The properties of CirBuf hold of every part, for its variables are as    *)
(* they were in the beginning where a part is about something else.         *)

(* Every variable of every part keeps its type.                             *)
SideTypeOK ==
  /\ part = "ring" => TypeOK
  /\ part = "output" => Out!TypeOK
  /\ part = "input" => In!TypeOK
  /\ part = "ssh" => Ssh!TypeOK
  /\ part = "forwards" => Fwd!TypeOK

(* The output file holds the bytes of the stream in order, its size and gap *)
(* name the next byte to be stored, and a resume asks for a position past   *)
(* all of them, after a crash too.                                          *)
FileInOrder == part = "output" => Out!FileInOrder /\ Out!NextByteFollows /\ Out!ResumePastFile

(* No send on the input channel blocks under the queue's lock.              *)
SendsNeverBlock == part = "input" => In!SendsNeverBlock

(* Input that was accepted is held or was sent once, and leaves in order,   *)
(* within a session and between sessions, but for what came too late.       *)
InputInOrder == part = "input" => In!EachOnce /\ In!InOrder /\ In!SessionsInOrder

(* Nothing is held beyond the timeout, whatever timers come late.           *)
HeldUntilTimeout == part = "input" => In!HeldUntilTimeout

(* Status, monitor and helper are those of the client the connection has,   *)
(* and every other client that is up is being closed.                       *)
HandlesBelong == part = "ssh" => Ssh!HandlesBelong

(* A connection the user closed does not come back by itself.               *)
ClosedStaysClosed == part = "ssh" => Ssh!ClosedStaysClosed

(* Sessions and dials are counted right and leave no connection open.       *)
SessionsAccounted == part = "forwards" => Fwd!SessionsAccounted

(* What relays belongs to the forward listed and the client it has.         *)
RelaysBelong == part = "forwards" => Fwd!RelaysBelong
=============================================================================
