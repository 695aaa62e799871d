\* A lock and two requests, for one of which memory can lack, on two volumes of
\* which one at most is current.  They are handed over and freed in the end.
CONSTANTS
  l1 = l1
  r1 = r1
  r2 = r2
  v1 = v1
  v2 = v2
  Lock = {l1}
  Request = {r1, r2}
  Volume = {v1, v2}
  VolumeOf <- MCVolumeOf
  NULL = NULL
  CanFail = {r2}
  HandlerFirst = TRUE
SPECIFICATION PoliteSpec
INVARIANTS OwnerAnswers NothingStranded
PROPERTIES ServicePromise Answered HelperEnds
CHECK_DEADLOCK FALSE
