\* Only the case of the name changes.
CONSTANTS
  Walked = {e1, e2, e3}
  Bucket = 2
  CaseOnly = TRUE
  END = END
SPECIFICATION WalkSpec
CHECK_DEADLOCK FALSE
PROPERTIES Ends
