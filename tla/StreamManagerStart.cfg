SPECIFICATION Spec
CONSTANTS
  s1 = s1
  s2 = s2
  Streams = {s1, s2}
  NoStream = NoStream
  Cap = 2
  Cwnd = 2
  MaxPacket = 1
  MaxRwnd = 1
  MaxPos = 3
SYMMETRY StreamSymmetry
PROPERTY StartIsHead
