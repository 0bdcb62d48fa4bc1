SPECIFICATION Spec
CONSTANTS
  m1 = m1
  m2 = m2
  a1 = a1
  a2 = a2
  Message <- MCMessage
  Article <- MCArticle
  ArticleOf <- MCArticleOf
  CategoryOf <- MCCategoryOf
  Category = {0, 1, 2}
  MaxPending = 2
INVARIANTS
  TypeOK
  MarksKept
  StoredIsInForce
  CountMatchesList
CHECK_DEADLOCK FALSE
