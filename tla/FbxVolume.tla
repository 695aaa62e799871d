------------------------------- MODULE FbxVolume -------------------------------
(***************************************************************************)
(* The event loop of one handler and the volume it shows: disk changes,    *)
(* inhibition, formatting and shutdown.                                    *)
(*                                                                         *)
(* The loop is one process and takes several steps for one turn.  Between  *)
(* any two of them the disk can change, the disk change interrupt or a     *)
(* task that calls FbxSignalDiskChange can set dosetup and signal the      *)
(* loop, and clients can send packets.  A packet is served in one step.    *)
(*                                                                         *)
(* Locks, requests and files are the business of FbxLocks; here a volume   *)
(* is the disk it was made for.  Packets that only use the volume change   *)
(* nothing in this module and are left out.                                *)
(***************************************************************************)
EXTENDS Naturals, Sequences, FiniteSets

CONSTANTS
  Disk,           \* the disks that can be in the drive
  Client,         \* processes that send packets and wait for the reply
  NULL,
  MaxInhibit,     \* bound on the nesting of inhibits
  MaxFSSM,        \* bound on the users of the startup message
  CanFail         \* the disks with which a setup or a format can fail, NULL
                  \* for the empty drive

\* The values of fs->currvol that are no volume, other than NULL.
BAD_DISK   == "-1"    \* the disk is not formatted
NO_SETUP   == "-2"    \* the backend could not open its resources
Sentinel   == {BAD_DISK, NO_SETUP}

ASSUME ConstantAssumption ==
  /\ NULL \notin Disk \cup Sentinel /\ Disk \cap Sentinel = {}
  /\ MaxInhibit \in Nat /\ MaxFSSM \in Nat
  /\ CanFail \subseteq Disk \cup {NULL}

VARIABLES
  media,          \* the disk in the drive
  formatted,      \* the disks with a layout that the backend accepts
  alarm,          \* the drive has noted a change that it has not reported
  signalling,     \* a task is between the two statements of FbxSignalDiskChange
  mount,          \* the disk of the last init without a destroy
  currvol,        \* fs->currvol
  dosetup,        \* fs->dosetup
  inhibit,        \* fs->inhibit
  shutdown,       \* fs->shutdown
  fssmcount,      \* fs->fssmcount: who uses the startup message of the device
  pc,             \* where the event loop is
  signals,        \* the signals the loop has received and not waited for
  queue,          \* fs->fsport: the clients whose packets wait there
  packet,         \* the packet a client has sent, NULL when it has its reply
  seen            \* what the last FbxSetupVolume found in the drive

drive   == <<media, formatted>>
report  == <<alarm, signalling>>
volume  == <<mount, currvol, seen>>
flags   == <<dosetup, inhibit, shutdown, fssmcount>>
packets == <<queue, packet>>
vars    == <<drive, report, volume, flags, pc, signals, packets>>

Packet == {"ACTION_INHIBIT on", "ACTION_INHIBIT off", "ACTION_FORMAT",
           "ACTION_GET_DISK_FSSM", "ACTION_FREE_DISK_FSSM", "ACTION_DIE"}

Label == {"setup?", "clear", "init", "start", "wait", "packets", "shutdown?",
          "end"}

OkVolume(vol) == vol \in Disk

\* What init can tell about the drive: the disk, and whether it has a layout.
Content == <<media, formatted \cap {media}>>

-----------------------------------------------------------------------------
(* The drive, and who reports a change of disk *)

Change ==
  /\ media' \in (Disk \cup {NULL}) \ {media}
  /\ alarm' = TRUE
  /\ UNCHANGED <<formatted, signalling, volume, flags, pc, signals, packets>>

\* The interrupt runs to its end before the loop continues.
FbxDiskChangeHandler ==
  /\ alarm
  /\ alarm' = FALSE
  /\ dosetup' = TRUE
  /\ signals' = signals \cup {"diskchange"}
  /\ UNCHANGED <<drive, signalling, volume, inhibit, shutdown, fssmcount>>
  /\ UNCHANGED <<pc, packets>>

\* A task of the backend can be interrupted between the flag and the signal.
FbxSignalDiskChange ==
  \/ /\ alarm /\ ~signalling
     /\ alarm' = FALSE
     /\ dosetup' = TRUE
     /\ signalling' = TRUE
     /\ UNCHANGED <<drive, volume, inhibit, shutdown, fssmcount>>
     /\ UNCHANGED <<pc, signals, packets>>
  \/ /\ signalling
     /\ signalling' = FALSE
     /\ signals' = signals \cup {"diskchange"}
     /\ UNCHANGED <<drive, alarm, volume, flags, pc, packets>>

\* PutMsg queues the packet and signals the loop.
SendPacket(c, p) ==
  /\ packet[c] = NULL
  /\ LET Waiting == Cardinality({d \in Client : packet[d] = p}) IN
     /\ p = "ACTION_INHIBIT on" => inhibit + Waiting < MaxInhibit
     /\ p = "ACTION_GET_DISK_FSSM" => fssmcount + Waiting < MaxFSSM
  /\ packet' = [packet EXCEPT ![c] = p]
  /\ queue' = Append(queue, c)
  /\ signals' = signals \cup {"packet"}
  /\ UNCHANGED <<drive, report, volume, flags, pc>>

-----------------------------------------------------------------------------
(* Setting a volume up and taking it down *)

\* The volume is destroyed, if there is one; the sentinels are just dropped.
FbxCleanupVolume ==
  /\ currvol' = NULL
  /\ mount' = IF OkVolume(currvol) THEN NULL ELSE mount
  /\ UNCHANGED seen

\* Top of the loop.
CheckSetup ==
  /\ pc = "setup?"
  /\ IF dosetup
     THEN FbxCleanupVolume /\ pc' = "clear"
     ELSE UNCHANGED volume /\ pc' = "wait"
  /\ UNCHANGED <<drive, report, flags, signals, packets>>

ClearSetup ==
  /\ pc = "clear"
  /\ dosetup' = FALSE
  /\ pc' = "init"
  /\ UNCHANGED <<drive, report, volume, inhibit, shutdown, fssmcount>>
  /\ UNCHANGED <<signals, packets>>

\* FbxSetupVolume as far as the call of init.  The loop comes here without a
\* volume.
InitVolume ==
  /\ pc = "init"
  /\ IF inhibit > 0
     THEN currvol' = NULL /\ pc' = "wait" /\ UNCHANGED <<mount, seen>>
     ELSE /\ seen' = Content
          /\ \/ media = NULL
                /\ currvol' = NULL /\ pc' = "wait" /\ UNCHANGED mount
             \/ media # NULL /\ media \notin formatted
                /\ currvol' = BAD_DISK /\ pc' = "wait" /\ UNCHANGED mount
             \/ media \in CanFail
                /\ currvol' = NO_SETUP /\ pc' = "wait" /\ UNCHANGED mount
             \/ media \in formatted
                /\ mount' = media /\ pc' = "start" /\ UNCHANGED currvol
  /\ UNCHANGED <<drive, report, flags, signals, packets>>

\* Mutant of StartVolume: the flag is cleared after the setup, not before.
StartThenClear ==
  /\ pc = "start"
  /\ \/ currvol' = mount /\ UNCHANGED mount
     \/ (mount \in CanFail \/ media # mount) /\ mount' = NULL /\ UNCHANGED currvol
  /\ dosetup' = FALSE
  /\ pc' = "wait"
  /\ UNCHANGED <<drive, report, seen, inhibit, shutdown, fssmcount>>
  /\ UNCHANGED <<signals, packets>>

\* The rest of FbxSetupVolume: statfs, getattr, the volume node and its place
\* in the DOS list.  A failure is not tried again before the next change.
StartVolume ==
  /\ pc = "start"
  /\ \/ currvol' = mount /\ UNCHANGED mount
     \/ (mount \in CanFail \/ media # mount) /\ mount' = NULL /\ UNCHANGED currvol
  /\ pc' = "wait"
  /\ UNCHANGED <<drive, report, seen, flags, signals, packets>>

-----------------------------------------------------------------------------
(* Packets *)

Reply(c) ==
  /\ queue' = Tail(queue)
  /\ packet' = [packet EXCEPT ![c] = NULL]

\* Mutant of FbxInhibit: the end of an inhibit does not ask for a setup.
InhibitOnly(on) ==
  /\ IF on
     THEN /\ IF inhibit = 0 THEN FbxCleanupVolume ELSE UNCHANGED volume
          /\ inhibit' = inhibit + 1
     ELSE /\ inhibit' = IF inhibit > 0 THEN inhibit - 1 ELSE inhibit
          /\ UNCHANGED volume
  /\ UNCHANGED <<drive, dosetup, shutdown, fssmcount>>

\* Mutant of FbxInhibit: the volume stays.
InhibitMounted(on) ==
  /\ inhibit' = IF on THEN inhibit + 1
                ELSE IF inhibit > 0 THEN inhibit - 1 ELSE inhibit
  /\ dosetup' = (dosetup \/ (~on /\ inhibit = 1))
  /\ UNCHANGED <<drive, volume, shutdown, fssmcount>>

\* Mutant of FbxInhibit: an end without a beginning is counted too.
InhibitUnguarded(on) ==
  /\ IF on /\ inhibit = 0 THEN FbxCleanupVolume ELSE UNCHANGED volume
  /\ inhibit' = IF on THEN inhibit + 1 ELSE inhibit - 1
  /\ dosetup' = (dosetup \/ (~on /\ inhibit = 1))
  /\ UNCHANGED <<drive, shutdown, fssmcount>>

\* The first inhibit takes the volume down, the end of the last one has it
\* set up again.
FbxInhibit(on) ==
  /\ IF on
     THEN /\ IF inhibit = 0 THEN FbxCleanupVolume ELSE UNCHANGED volume
          /\ inhibit' = inhibit + 1
          /\ UNCHANGED dosetup
     ELSE /\ inhibit' = IF inhibit > 0 THEN inhibit - 1 ELSE inhibit
          /\ dosetup' = (dosetup \/ inhibit = 1)
          /\ UNCHANGED volume
  /\ UNCHANGED <<drive, shutdown, fssmcount>>

\* Formatting is refused unless somebody inhibits the handler.  One that fails
\* half way can leave a disk without a layout.
FbxFormat ==
  /\ \/ UNCHANGED formatted
     \/ inhibit > 0 /\ media # NULL /\ formatted' = formatted \cup {media}
     \/ inhibit > 0 /\ media \in CanFail /\ formatted' = formatted \ {media}
  /\ UNCHANGED <<media, volume, flags>>

\* The count only matters for shutdown.  A handler that is told of disk
\* changes has a startup message.
FbxObtainFSSM ==
  /\ fssmcount' = fssmcount + 1
  /\ UNCHANGED <<drive, volume, dosetup, inhibit, shutdown>>

FbxReleaseFSSM ==
  /\ fssmcount' = IF fssmcount # 0 THEN fssmcount - 1 ELSE fssmcount
  /\ UNCHANGED <<drive, volume, dosetup, inhibit, shutdown>>

\* Shutdown is refused while the startup message is in use.
DieRefused == shutdown \/ fssmcount # 0

FbxDie ==
  /\ shutdown' = TRUE
  /\ FbxCleanupVolume
  /\ UNCHANGED <<drive, dosetup, inhibit, fssmcount>>

\* Shutdown redirects the packets that are queued behind it to the lock
\* handler process, which answers them.
AllReplied ==
  /\ queue' = <<>>
  /\ packet' = [c \in Client |-> NULL]

\* FbxDoPacket: what a packet of client c does, and its reply.
FbxDoPacket(c) ==
  \/ packet[c] = "ACTION_INHIBIT on" /\ FbxInhibit(TRUE) /\ Reply(c)
  \/ packet[c] = "ACTION_INHIBIT off" /\ FbxInhibit(FALSE) /\ Reply(c)
  \/ packet[c] = "ACTION_FORMAT" /\ FbxFormat /\ Reply(c)
  \/ packet[c] = "ACTION_GET_DISK_FSSM" /\ FbxObtainFSSM /\ Reply(c)
  \/ packet[c] = "ACTION_FREE_DISK_FSSM" /\ FbxReleaseFSSM /\ Reply(c)
  \/ /\ packet[c] = "ACTION_DIE"
     /\ \/ DieRefused /\ UNCHANGED <<drive, volume, flags>> /\ Reply(c)
        \/ ~DieRefused /\ FbxDie /\ AllReplied

\* FbxHandlePackets serves one packet.
ServePacket ==
  /\ pc = "packets" /\ queue # <<>>
  /\ FbxDoPacket(Head(queue))
  /\ UNCHANGED <<report, pc, signals>>

NoMorePackets ==
  /\ pc = "packets" /\ queue = <<>>
  /\ pc' = "shutdown?"
  /\ UNCHANGED <<drive, report, volume, flags, signals, packets>>

-----------------------------------------------------------------------------
(* The rest of the loop *)

\* Mutant of WaitSignals: a change of disk hides the packets that came with it.
WaitForOne ==
  /\ pc = "wait" /\ signals # {}
  /\ signals' = {}
  /\ pc' = IF signals = {"packet"} THEN "packets" ELSE "shutdown?"
  /\ UNCHANGED <<drive, report, volume, flags, packets>>

\* Wait returns the signals that have come and clears them.
WaitSignals ==
  /\ pc = "wait" /\ signals # {}
  /\ signals' = {}
  /\ pc' = IF "packet" \in signals THEN "packets" ELSE "shutdown?"
  /\ UNCHANGED <<drive, report, volume, flags, packets>>

\* A timer event, a notify reply or a user signal makes one more turn.  When
\* the signals above are there too, Wait returns them in the same turn.
OtherSignal ==
  /\ pc = "wait" /\ signals = {}
  /\ pc' = "shutdown?"
  /\ UNCHANGED <<drive, report, volume, flags, signals, packets>>

CheckShutdown ==
  /\ pc = "shutdown?"
  /\ pc' = IF shutdown THEN "end" ELSE "setup?"
  /\ UNCHANGED <<drive, report, volume, flags, signals, packets>>

-----------------------------------------------------------------------------
Init ==
  /\ media \in Disk \cup {NULL} /\ formatted \in SUBSET Disk
  /\ alarm = FALSE /\ signalling = FALSE
  /\ mount = NULL /\ currvol = NULL /\ seen = <<NULL, {}>>
  /\ dosetup = TRUE /\ inhibit = 0 /\ shutdown = FALSE /\ fssmcount = 0
  /\ pc = "setup?" /\ signals = {}
  /\ queue = <<>> /\ packet = [c \in Client |-> NULL]

FbxEventLoop ==
  CheckSetup \/ ClearSetup \/ InitVolume \/ StartVolume \/ WaitSignals
    \/ ServePacket \/ NoMorePackets \/ CheckShutdown

Next ==
  \/ Change \/ FbxDiskChangeHandler \/ FbxSignalDiskChange
  \/ \E c \in Client, p \in Packet : SendPacket(c, p)
  \/ FbxEventLoop \/ OtherSignal

\* The loop runs while it can, and changes of the disk are reported.
Fairness ==
  /\ WF_vars(FbxEventLoop)
  /\ WF_vars(FbxDiskChangeHandler \/ FbxSignalDiskChange)

Spec == Init /\ [][Next]_vars /\ Fairness

-----------------------------------------------------------------------------
(* Properties *)

\* Types; whatever ends of inhibits and releases of the startup message
\* clients send, neither count goes below zero.
TypeOK ==
  /\ media \in Disk \cup {NULL} /\ formatted \subseteq Disk
  /\ alarm \in BOOLEAN /\ signalling \in BOOLEAN
  /\ mount \in Disk \cup {NULL}
  /\ currvol \in Disk \cup {NULL} \cup Sentinel
  /\ dosetup \in BOOLEAN /\ inhibit \in Nat
  /\ shutdown \in BOOLEAN /\ fssmcount \in Nat
  /\ pc \in Label /\ signals \subseteq {"packet", "diskchange"}
  /\ queue \in Seq(Client) /\ packet \in [Client -> Packet \cup {NULL}]
  /\ seen \in (Disk \cup {NULL}) \X SUBSET Disk

\* No change of disk is lost: when the loop sleeps with nothing left to wake
\* it, the last setup looked at what is in the drive now, although dosetup is
\* set and cleared by different processes without a semaphore and the drive
\* may change in the middle of a setup.
NoLostChange ==
  pc = "wait" /\ signals = {} /\ ~alarm /\ ~signalling /\ inhibit = 0
    => shutdown \/ seen = Content

\* A packet that finds a volume finds a mounted backend, and the backend is
\* never left mounted without a volume, whatever failed during the setup.
VolumeIsMounted ==
  pc # "start" => mount = IF OkVolume(currvol) THEN currvol ELSE NULL

\* Once the handler has agreed to shut down nothing is mounted, whatever disk
\* changes, ends of inhibits and packets still come before the loop ends.
DeadIsUnmounted == shutdown => mount = NULL /\ currvol = NULL

\* init, destroy and format come in the order that FbxMount promises.
Backend == INSTANCE FbxMount
BackendPromise == Backend!Spec

\* What the user should see.
Shown ==
  IF inhibit > 0 \/ media = NULL THEN NULL
  ELSE IF media \in formatted THEN media ELSE BAD_DISK

\* When disks, inhibits and packets come to rest, the handler shows what is in
\* the drive, unless the last setup could fail.
Settles ==
  <>[][FALSE]_<<drive, inhibit, packet>> => <>[](shutdown \/ currvol = Shown \/ media \in CanFail)

\* Every packet is answered, or the handler is shut down.
Answered ==
  \A c \in Client : packet[c] # NULL ~> packet[c] = NULL \/ shutdown
=============================================================================
