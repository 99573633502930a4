CONSTANTS
  s1 = s1
  s2 = s2
  c1 = c1
  None = None
  Shell <- MCShell
  Ctl <- MCCtl
  NModules = 1
  MaxBoots = 2
SPECIFICATION PatientSpec
PROPERTIES RefusedForCause StopsWhenAsked EveryoneIsServed
CHECK_DEADLOCK FALSE
