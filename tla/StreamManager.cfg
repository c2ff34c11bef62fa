SPECIFICATION Spec
CONSTANTS
  s1 = s1
  s2 = s2
  Streams = {s1, s2}
  NoStream = NoStream
  Cap = 2
  Cwnd = 2
  MaxPacket = 2
  MaxRwnd = 2
  MaxPos = 3
SYMMETRY StreamSymmetry
INVARIANTS
  TypeOK SentInRing ParkedOnlyWhenFull SenderNotForgotten SentOnce TerminalLast
PROPERTY NothingDroppedWhileConnected
