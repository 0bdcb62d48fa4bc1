SPECIFICATION Spec
CONSTANTS
  News = {n1, n2}
  Bulletin = {b1}
  n1 = n1
  n2 = n2
  b1 = b1
  MaxMessages = 3
PROPERTIES
  KeptArticlesFound
CHECK_DEADLOCK FALSE
