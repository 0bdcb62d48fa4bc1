SPECIFICATION Spec
CONSTANTS
  academics = academics
  athletics = athletics
  Article <- MCArticle
  Type = {academics, athletics}
  TypeOf <- MCTypeOf
  TitleOf <- MCTitleOf
  DotTypes = {athletics}
  MaxScreens = 2
  Selecting = {1}
  MaxSnapshots = 3
  MaxQueue = 2
INVARIANTS
  TypeOK
  QuietMarksKept
  RowsFollowList
  OnlyEarnedMarks
  RowsFollowSelectors
  DotShowsUnread
CONSTRAINT
  FewAtOnce
CHECK_DEADLOCK FALSE
