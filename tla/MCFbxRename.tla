------------------------------ MODULE MCFbxRename ------------------------------
(***************************************************************************)
(* Instances of FbxRename for TLC.                                         *)
(***************************************************************************)
EXTENDS FbxRename
=============================================================================
