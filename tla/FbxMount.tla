------------------------------- MODULE FbxMount -------------------------------
(***************************************************************************)
(* What a backend may rely on: its init and destroy operations alternate,  *)
(* init is called for the disk that is in the drive, and nothing is        *)
(* mounted while somebody inhibits the handler, so that format, which      *)
(* needs an inhibited handler, never meets a mounted disk.  FbxVolume      *)
(* implements this.                                                        *)
(***************************************************************************)
EXTENDS Naturals

CONSTANTS
  Disk,           \* the disks that can be in the drive
  NULL            \* no disk

VARIABLES
  media,          \* the disk in the drive
  formatted,      \* the disks that init accepts
  inhibit,        \* how many times access is inhibited
  mount           \* the disk between init and destroy

vars == <<media, formatted, inhibit, mount>>

Init ==
  /\ media \in Disk \cup {NULL} /\ formatted \in SUBSET Disk
  /\ inhibit = 0
  /\ mount = NULL

\* Disks come and go at any time.
Change ==
  /\ media' \in Disk \cup {NULL}
  /\ UNCHANGED <<formatted, inhibit, mount>>

Mount ==
  /\ inhibit = 0 /\ mount = NULL
  /\ media \in formatted
  /\ mount' = media
  /\ UNCHANGED <<media, formatted, inhibit>>

Unmount ==
  /\ mount # NULL
  /\ mount' = NULL
  /\ UNCHANGED <<media, formatted, inhibit>>

Inhibit ==
  /\ mount' = NULL
  /\ inhibit' = inhibit + 1
  /\ UNCHANGED <<media, formatted>>

Permit ==
  /\ inhibit > 0
  /\ inhibit' = inhibit - 1
  /\ UNCHANGED <<media, formatted, mount>>

Format ==
  /\ inhibit > 0 /\ mount = NULL
  /\ media # NULL
  /\ formatted' \in {formatted \cup {media}, formatted \ {media}}
  /\ UNCHANGED <<media, inhibit, mount>>

Next == Change \/ Mount \/ Unmount \/ Inhibit \/ Permit \/ Format

Spec == Init /\ [][Next]_vars
=============================================================================
