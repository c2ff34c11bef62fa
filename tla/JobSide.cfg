SPECIFICATION SideSpec
CONSTANTS
  Size = 3
  MaxWrite = 4
  MaxTotal = 8
  s1 = s1
  s2 = s2
  Streams = {s1, s2}
  NoStream = NoStream
  RWnd = 1
  ReadSize = 1
  AckFraction = 1
  MaxPacket = 1
  MaxPos = 2
  a = a
  b = b
  InputSessions = {a, b}
  NoSession = NoSession
  Cap = 3
  Timeout = 2
  Inputs <- SomeInputs
  MaxTime = 3
  MaxConnects = 2
  MaxLoops = 2
  MaxCloses = 1
  Installs = {1}
  MaxForwards = 1
  MaxSessions = 2
  MaxClients = 2
  SessionLimit = 2
  DialLimit = 1
VIEW View
SYMMETRY StreamSymmetry
INVARIANTS
  SideTypeOK WriterNotForgotten FileInOrder SendsNeverBlock InputInOrder HeldUntilTimeout
   ClosedStaysClosed SessionsAccounted RelaysBelong
PROPERTY Refinement
