----------------------------- MODULE MCFbxDosList -----------------------------
(***************************************************************************)
(* Instances of FbxDosList for TLC.                                        *)
(***************************************************************************)
EXTENDS FbxDosList
=============================================================================
