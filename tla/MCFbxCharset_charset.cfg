\* The tree for every order of six characters; names of two characters, with
\* Latin-1 and with one table.  A behaviour ends with its conversion.
CONSTANTS
  Table <- AllTables
  Convertible <- OneOfThem
  UTF8Name <- UTF8Names
  LocalName <- LocalNames
  Present <- Presents
  BufferSize <- Sizes
SPECIFICATION Spec
CHECK_DEADLOCK FALSE
INVARIANTS Balanced RoundTrip CutIsTold
