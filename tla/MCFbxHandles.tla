------------------------------ MODULE MCFbxHandles ------------------------------
(***************************************************************************)
(* Instances of FbxHandles for TLC.                                        *)
(***************************************************************************)
EXTENDS FbxHandles

Offsets == -3..3
=============================================================================
