------------------------------ MODULE MCFbxNotify ------------------------------
(***************************************************************************)
(* Instances of FbxNotify for TLC.                                         *)
(***************************************************************************)
EXTENDS FbxNotify, TLC
=============================================================================
