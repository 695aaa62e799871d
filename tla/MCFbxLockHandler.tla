--------------------------- MODULE MCFbxLockHandler ---------------------------
(***************************************************************************)
(* Instances of FbxLockHandler for TLC.                                    *)
(***************************************************************************)
EXTENDS FbxLockHandler

CONSTANTS l1, r1, r2, v1, v2

\* One request shares its volume with the lock, the other has one for itself.
MCVolumeOf == [o \in Object |-> IF o = r2 THEN v2 ELSE v1]
=============================================================================
