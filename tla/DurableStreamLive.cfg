SPECIFICATION FairSpec
CONSTANTS
  s1 = s1
  Streams = {s1}
  NoStream = NoStream
  Cap = 2
  Cwnd = 2
  RWnd = 1
  ReadSize = 1
  AckFraction = 1
  MaxPacket = 1
  MaxPos = 3
  CanTimeout = FALSE
  CanCrash = FALSE
PROPERTIES EveryByteStored EndRecorded
