----------------------------- MODULE MCFbxLibrary -----------------------------
(***************************************************************************)
(* Instances of FbxLibrary for TLC.                                        *)
(***************************************************************************)
EXTENDS FbxLibrary
=============================================================================
