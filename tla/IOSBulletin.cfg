SPECIFICATION Spec
CONSTANTS
  x1 = x1
  x2 = x2
  x3 = x3
  b1 = b1
  b2 = b2
  Article <- MCArticle
  Branch <- MCBranch
  BranchOf <- MCBranchOf
  MaxAsked = 2
INVARIANTS
  TypeOK
  MarksKept
  LabelsFollowMarks
CHECK_DEADLOCK FALSE
