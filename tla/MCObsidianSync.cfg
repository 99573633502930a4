CONSTANTS
  f = f
  g = g
  plain = plain
  linked = linked
  None = None
  File <- MCFile
  Body <- MCBody
  LinksOf <- MCLinksOf
  Front = {t}
  MaxId = 5
  MaxEdits = 3
  MaxTouches = 1
  MaxInterrupts = 1
SPECIFICATION FairSpec
CHECK_DEADLOCK FALSE
INVARIANTS HashTellsTruth NotesMirrorFiles
PROPERTIES Converges ConflictsReported
