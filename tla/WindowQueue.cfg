SPECIFICATION WindowSpec
CONSTANTS
  w1 = w1
  w2 = w2
  w3 = w3
  t1 = t1
  t2 = t2
  t3 = t3
  t4 = t4
  t5 = t5
  Workspaces = {w1, w2, w3}
  Elsewhere = {w3}
  Home = w1
  Tabs = {t1, t2, t3, t4, t5}
  InitTabs <- MCInit
  NoTab = NoTab
  NoWs = NoWs
  MaxOps = 3
  MaxCallFails = 1
  MaxExits = 0
INVARIANT HeadInProcess
CHECK_DEADLOCK FALSE
