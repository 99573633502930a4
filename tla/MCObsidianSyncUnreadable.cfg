CONSTANTS
  f = f
  g = g
  plain = plain
  linked = linked
  None = None
  File <- MCFile
  Body <- MCBody
  LinksOf <- MCLinksOf
  Front = {t}
  MaxId = 2
  MaxEdits = 2
  MaxTouches = 0
  MaxInterrupts = 0
SPECIFICATION Spec
CHECK_DEADLOCK FALSE
PROPERTY DeletesOnlyTheGone
