\* Three handles of a file of at most five units; four names, of which three
\* are asked for, and buffers for one or two of them.
CONSTANTS
  Handle = {h1, h2, h3}
  NonSeekable = {h3}
  Offset <- Offsets
  MaxSize = 5
  Name = {n1, n2, n3, n4}
  Matching = {n1, n2, n3}
  FillDirStat = FALSE
  BufferSize = 2
SPECIFICATION HandlesSpec
INVARIANT ScanTells
PROPERTY PositionsKept
