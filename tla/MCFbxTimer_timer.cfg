\* Two callbacks that may uninstall themselves, one signal, a clock of seven.
CONSTANTS
  c1 = c1
  c2 = c2
  Callback = {c1, c2}
  Period <- Periods
  Uninstalls <- Themselves
  Signal = {s1}
  Wrap = 7
  Request = 1
  MaxLate = 1
  Active = 2
  Inactive = 1
  END = END
SPECIFICATION Spec
INVARIANTS CalledInTime WalkOnListed FlushedInTime
PROPERTIES SignalsServed
CHECK_DEADLOCK FALSE
