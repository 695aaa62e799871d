-------------------------------- MODULE FbxFileIO --------------------------------
(***************************************************************************)
(* The handles of one file: their positions and the size of the file.      *)
(*                                                                         *)
(* The data is left out, and so is the volume, which stays mounted and     *)
(* writable (FbxLocks has both).  A position of -1 cannot be told from an  *)
(* error.  FbxSeekFile and FbxSetFileSize answer with 32 bits on 32-bit    *)
(* machines, after they have done their work; answers are left out.        *)
(***************************************************************************)
EXTENDS Integers, FiniteSets

CONSTANTS
  Handle,         \* file handles
  NonSeekable,    \* handles that the backend has marked as not seekable
  Offset,         \* offsets that programs give
  MaxSize         \* bounds the size of the file and the positions (from below,
                  \* too: a position can become negative)

ASSUME HandleAssumption ==
  NonSeekable \subseteq Handle /\ Offset \subseteq Int /\ MaxSize \in Nat

VARIABLES
  size,           \* st_size
  access,         \* lock->access of each handle, "none" when it is closed
  filepos         \* lock->filepos

vars == <<size, access, filepos>>

OpenHandles == {h \in Handle : access[h] # "none"}

\* FbxFindEntry and FbxLockEntry: an exclusive lock stands alone.
CanLock(mode) ==
  \A h \in OpenHandles : mode = "shared" /\ access[h] = "shared"

-----------------------------------------------------------------------------
\* FbxOpenFile, MODE_OLDFILE or MODE_READWRITE.
OpenShared(h) ==
  /\ access[h] = "none" /\ CanLock("shared")
  /\ access' = [access EXCEPT ![h] = "shared"]
  /\ filepos' = [filepos EXCEPT ![h] = 0]
  /\ UNCHANGED size

\* FbxOpenFile, MODE_NEWFILE.  The file is truncated, and can then not be
\* opened for want of memory.
OpenNew(h) ==
  /\ access[h] = "none" /\ CanLock("exclusive")
  /\ size' = 0
  /\ \/ /\ access' = [access EXCEPT ![h] = "exclusive"]
        /\ filepos' = [filepos EXCEPT ![h] = 0]
     \/ UNCHANGED <<access, filepos>>

FbxCloseFile(h) ==
  /\ access[h] # "none"
  /\ access' = [access EXCEPT ![h] = "none"]
  /\ filepos' = [filepos EXCEPT ![h] = 0]
  /\ UNCHANGED size

\* The backend reads up to the end, or less.
FbxReadFile(h) ==
  /\ access[h] # "none"
  /\ \E res \in 0..MaxSize :
       /\ 0 <= filepos[h] /\ filepos[h] + res <= size
       /\ filepos' = [filepos EXCEPT ![h] = @ + res]
  /\ UNCHANGED <<size, access>>

\* The backend writes some of the bytes; the position moves by all of them.
FbxWriteFile(h) ==
  /\ access[h] # "none" /\ filepos[h] >= 0
  /\ \E bytes \in 1..MaxSize, res \in 1..MaxSize :
       /\ res <= bytes /\ filepos[h] + bytes <= MaxSize
       /\ size' = IF filepos[h] + res > size THEN filepos[h] + res ELSE size
       /\ filepos' = [filepos EXCEPT ![h] = @ + bytes]
  /\ UNCHANGED access

\* OFFSET_BEGINNING, OFFSET_CURRENT and OFFSET_END.
Target(h, offset) == {offset, filepos[h] + offset, size + offset}

FbxSeekFile64(h) ==
  /\ access[h] # "none" /\ h \notin NonSeekable
  /\ filepos[h] # -1
  /\ \E offset \in Offset : \E newpos \in Target(h, offset) :
       /\ 0 <= newpos /\ newpos <= size
       /\ filepos' = [filepos EXCEPT ![h] = newpos]
  /\ UNCHANGED <<size, access>>

\* Mutant of FbxTruncNewSize: only exclusive locks count.
TruncExclusive(h, newsize) ==
  \A k \in OpenHandles \ {h} : access[k] = "exclusive" => filepos[k] <= newsize

\* No other handle is beyond the new end.
FbxTruncNewSize(h, newsize) ==
  \A k \in OpenHandles \ {h} : filepos[k] <= newsize

\* The position is cut before the backend is asked, which can refuse, and
\* does so when the new size is negative.
FbxSetFileSize64(h) ==
  /\ access[h] # "none"
  /\ \E offset \in Offset : \E newsize \in Target(h, offset) :
       /\ newsize # size /\ newsize \in -MaxSize..MaxSize
       /\ FbxTruncNewSize(h, newsize)
       /\ filepos' = [filepos EXCEPT ![h] = IF @ > newsize THEN newsize ELSE @]
       /\ \/ newsize >= 0 /\ size' = newsize
          \/ UNCHANGED size
  /\ UNCHANGED access

-----------------------------------------------------------------------------
Init ==
  /\ size \in 0..MaxSize
  /\ access = [h \in Handle |-> "none"]
  /\ filepos = [h \in Handle |-> 0]

Next ==
  \E h \in Handle :
    \/ OpenShared(h) \/ OpenNew(h) \/ FbxCloseFile(h)
    \/ FbxReadFile(h) \/ FbxWriteFile(h)
    \/ FbxSeekFile64(h) \/ FbxSetFileSize64(h)

Spec == Init /\ [][Next]_vars

-----------------------------------------------------------------------------
(* Properties *)

TypeOK ==
  /\ size \in Nat
  /\ access \in [Handle -> {"none", "shared", "exclusive"}]
  /\ filepos \in [Handle -> Int]

\* A handle gets behind the end of the file only by a call of its own (a
\* short write); no truncation by another program leaves it there, through
\* FbxSetFileSize or MODE_NEWFILE.
Stays(h) ==
  /\ access[h] # "none" /\ access'[h] # "none"
  /\ filepos[h] <= size /\ filepos'[h] = filepos[h]

PositionsKept == [][\A h \in Handle : Stays(h) => filepos'[h] <= size']_vars
=============================================================================
