SPECIFICATION StoreSpec
CONSTANTS
  Notif <- MCNotif
  MaxScreens = 2
  MaxSnapshots = 3
  MaxQueue = 2
INVARIANTS
  StoreTypeOK
  MarksKept
  ReturnedShown
  DotShowsUnread
PROPERTIES
  StoredMarksAreTaps
CHECK_DEADLOCK FALSE
