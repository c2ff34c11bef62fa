SPECIFICATION PartSpec
CONSTANTS
  f1 = f1
  d1 = d1
  u1 = u1
  w1 = w1
  w2 = w2
  s1 = s1
  s2 = s2
  s3 = s3
  t1 = t1
  t2 = t2
  t3 = t3
  t4 = t4
  t5 = t5
  b1 = b1
  b2 = b2
  b3 = b3
  None = None
  Files = {f1}
  Folders = {d1}
  Uploads = {u1}
  Windows = {w1, w2}
  Workers = {p1}
  MaxTransferJobs = 1
  MaxAttempt = 3
  MaxRestarts = 1
  MaxSize = 2
  MaxBytes = 3
  MaxEpoch = 1
  MaxLost = 1
  MaxSaves = 1
  MaxFails = 1
  MaxOpens = 1
  Workspaces = {s1, s2, s3}
  Elsewhere = {s3}
  Home = s1
  Tabs = {t1, t2, t3, t4, t5}
  InitTabs <- TabsOf
  NoTab = None
  NoWs = None
  MaxOps = 3
  MaxCallFails = 1
  MaxExits = 1
INVARIANTS
  AppTypeOK
  RunningIsServed  ReportsItsAttempt
   
   AllIsShown
   Balanced
PROPERTIES OutcomeStands CancelIsHonest Rearranged
CHECK_DEADLOCK FALSE
