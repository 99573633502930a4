CONSTANTS
  s1 = s1
  s2 = s2
  c1 = c1
  None = None
  Shell <- MCShell
  Ctl <- MCCtl
  NModules = 1
  MaxBoots = 1
SPECIFICATION FairSpec
PROPERTIES SignalIsHeeded
CHECK_DEADLOCK FALSE
