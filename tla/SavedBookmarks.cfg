SPECIFICATION BookmarksSpec
CONSTANTS
  n1 = n1
  n2 = n2
  b1 = b1
  News <- MCNews
  Bulletin <- MCBulletin
  MaxScreens = 5
SYMMETRY Symmetric
CONSTRAINT NotDoubled
INVARIANTS
  BookmarksTypeOK
  OneBookmark
  CopyIsCurrent
  ListIsTable
CHECK_DEADLOCK FALSE
