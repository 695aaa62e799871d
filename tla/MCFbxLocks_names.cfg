\* One mount, a two-level name space.
CONSTANTS
  RootInode = i0
  Object = {i1, i2}
  Path <- TreePath
  Inode <- AllInodes
  Disk <- EmptyDisk
  Entry = {e1, e2, e3}
  Lock = {l1, l2}
  Request = {n1}
  Volume = {v1}
  NULL = NULL
  Protection = {FALSE}
  UseIno = TRUE
  HasMknod = TRUE
  CaseSensitive = FALSE
SPECIFICATION Spec
SYMMETRY Symmetry
INVARIANTS TypeOK ExclusiveAlone OneEntryPerPath EntryKeepsObject
CHECK_DEADLOCK FALSE
