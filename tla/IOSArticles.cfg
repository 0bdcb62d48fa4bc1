SPECIFICATION Spec
CONSTANTS
  x1 = x1
  x2 = x2
  b1 = b1
  b2 = b2
  Article <- MCArticle
  Featured <- MCFeatured
  Branch <- MCBranch
  BranchOf <- MCBranchOf
  MaxAsked = 2
INVARIANTS
  TypeOK
  FeaturedIsLatest
  ButtonIsBookmark
  RowsAreStored
CHECK_DEADLOCK FALSE
