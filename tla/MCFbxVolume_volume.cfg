\* Two disks, one of which can fail; one client.
CONSTANTS
  Disk = {d1, d2}
  Client = {c1}
  NULL = NULL
  MaxInhibit = 2
  MaxFSSM = 1
  CanFail = {d2}
SPECIFICATION Spec
INVARIANTS TypeOK NoLostChange
PROPERTIES BackendPromise Settles Answered
