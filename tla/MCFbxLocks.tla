----------------------------- MODULE MCFbxLocks -----------------------------
(***************************************************************************)
(* Instances of FbxLocks for TLC.  Every disk holds a root directory only; *)
(* what else a run needs is created by the clients, so that the inodes     *)
(* other than the root's are interchangeable.                              *)
(***************************************************************************)
EXTENDS FbxLocks

CONSTANTS
  RootInode,
  Object        \* the other inodes

\* Two names in the root, each of which can be a directory with one name.
TreePath == {<<>>, <<"a">>, <<"b">>, <<"a", "c">>, <<"b", "c">>}

\* A root with one name in it.
FlatPath == {<<>>, <<"a">>}

EmptyDisk == {[p \in Path |-> IF p = Root THEN [type |-> "dir", ino |-> RootInode]
                              ELSE NoNode]}

AllInodes == Object \cup {RootInode}

Symmetry ==
  Permutations(Entry) \cup Permutations(Lock) \cup Permutations(Request)
    \cup Permutations(Volume) \cup Permutations(Object)
=============================================================================
