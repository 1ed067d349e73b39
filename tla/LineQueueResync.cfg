CONSTANTS
  Line = {l1}
  None = None
  MaxEdit = 2
SPECIFICATION FairSpec
INVARIANTS
  ScreenShowsServer
CHECK_DEADLOCK FALSE
