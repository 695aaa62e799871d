\* Three mounts of a disk with one name, the backend without mknod and inodes;
\* write protection.
CONSTANTS
  RootInode = i0
  Object = {i1}
  Path <- FlatPath
  Inode <- AllInodes
  Disk <- EmptyDisk
  Entry = {e1, e2}
  Lock = {l1, l2}
  Request = {n1}
  Volume = {v1, v2, v3}
  NULL = NULL
  Protection = {FALSE, TRUE}
  UseIno = FALSE
  HasMknod = FALSE
  CaseSensitive = TRUE
SPECIFICATION Spec
SYMMETRY Symmetry
INVARIANTS NoDangling OpenOnCurrent ShutdownEndsLocks
PROPERTY ProtectedUnchanged
CHECK_DEADLOCK FALSE
