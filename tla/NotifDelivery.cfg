SPECIFICATION Spec
CONSTANTS
  News = {n1, n2}
  Bulletin = {b1}
  n1 = n1
  n2 = n2
  b1 = b1
  MaxMessages = 3
INVARIANTS
  TypeOK
  TapOpensItsArticle
CHECK_DEADLOCK FALSE
