CONSTANTS
  Line = {l1}
  None = None
  MaxEdit = 2
SPECIFICATION FairSpec
PROPERTIES
  CommitAfterEveryEdit
CHECK_DEADLOCK FALSE
