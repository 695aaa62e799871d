------------------------------ MODULE MCFbxTimer ------------------------------
(***************************************************************************)
(* Instances of FbxTimer for TLC.                                          *)
(***************************************************************************)
EXTENDS FbxTimer, TLC

CONSTANTS c1, c2

Periods == c1 :> 1 @@ c2 :> 2

\* A callback may uninstall itself.
Themselves == {<<c, c>> : c \in Callback}
=============================================================================
