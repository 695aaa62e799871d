----------------------------- MODULE MCFbxVolume -----------------------------
(***************************************************************************)
(* Instances of FbxVolume for TLC.                                         *)
(***************************************************************************)
EXTENDS FbxVolume
=============================================================================
