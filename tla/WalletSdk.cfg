SPECIFICATION MCSpec
INVARIANTS
  OneLive
PROPERTIES
  Settles
CONSTANTS
  r1 = r1
  r2 = r2
  Requests <- TwoRequests
  MayBlock = TRUE
  MaxDialogs = 5
  MaxInbox = 2
CHECK_DEADLOCK FALSE
