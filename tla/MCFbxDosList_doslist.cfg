\* Two handlers.  The helper's priority is above theirs, and the DOS list is
\* unlocked in the end.
CONSTANTS
  Handler = {h1, h2}
  Volume = {v1, v2}
  Name = {n1}
  NULL = NULL
  Locked = TRUE
  CanFail = {v2}
  HelperFirst = TRUE
  MaxPort = 2
SPECIFICATION PoliteSpec
INVARIANT ListFollows
PROPERTIES CommandsEnd CommandsServed
