\* Every placement of three entries in two buckets; the name changes.
CONSTANTS
  Walked = {e1, e2, e3}
  Bucket = 2
  CaseOnly = FALSE
  END = END
SPECIFICATION WalkSpec
CHECK_DEADLOCK FALSE
INVARIANT AllRenamed
PROPERTIES Ends
