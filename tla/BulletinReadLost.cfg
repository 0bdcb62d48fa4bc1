SPECIFICATION Spec
CONSTANTS
  academics = academics
  athletics = athletics
  Article <- MCArticle
  Type = {academics, athletics}
  TypeOf <- MCTypeOf
  TitleOf <- MCTitleOf
  DotTypes = {athletics}
  MaxScreens = 1
  Selecting = {}
  MaxSnapshots = 2
  MaxQueue = 2
INVARIANTS
  MarksSurviveUpdates
CHECK_DEADLOCK FALSE
