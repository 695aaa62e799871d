------------------------------- MODULE FbxHandles -------------------------------
(***************************************************************************)
(* What programs do through their locks: read and write a file, or read a  *)
(* directory.  The locks of two objects have nothing in common, so that a  *)
(* behaviour is one of FbxFileIO or one of FbxExamine.                     *)
(***************************************************************************)
EXTENDS FbxFileIO

CONSTANTS
  Name, Matching, FillDirStat, BufferSize       \* of FbxExamine

ASSUME ExamineAssumption ==
  /\ Matching \subseteq Name /\ IsFiniteSet(Name) /\ FillDirStat \in BOOLEAN
  /\ BufferSize \in Nat \ {0}

VARIABLES
  type,           \* lock->entry->type
  dir, dirscan, dirdatalist, lastkey, scan

Directory == INSTANCE FbxExamine

directory == <<dir, dirscan, dirdatalist, lastkey, scan>>

HandlesInit ==
  /\ Init /\ Directory!Init
  /\ \/ type = "file" /\ dir = {}
     \/ type = "dir" /\ size = 0

HandlesNext ==
  /\ \/ type = "file" /\ Next /\ UNCHANGED directory
     \/ type = "dir" /\ Directory!Next /\ UNCHANGED vars
  /\ UNCHANGED type

HandlesSpec == HandlesInit /\ [][HandlesNext]_<<type, vars, directory>>

-----------------------------------------------------------------------------
\* A scan that is over has told all that was there all the time, once.
ScanTells == Directory!ScanTells
=============================================================================
