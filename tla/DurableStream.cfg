SPECIFICATION Spec
CONSTANTS
  s1 = s1
  s2 = s2
  Streams = {s1, s2}
  NoStream = NoStream
  Cap = 1
  Cwnd = 2
  RWnd = 1
  ReadSize = 1
  AckFraction = 1
  MaxPacket = 1
  MaxPos = 2
  CanTimeout = TRUE
  CanCrash = TRUE
SYMMETRY StreamSymmetry
INVARIANTS
  TypeOK WindowKept NoDataWhileCorked ResumeNotRefused EofMeansAccounted
PROPERTIES  OutputIsDurable
CHECK_DEADLOCK FALSE
