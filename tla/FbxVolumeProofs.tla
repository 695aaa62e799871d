--------------------------- MODULE FbxVolumeProofs ---------------------------
(***************************************************************************)
(* Proofs about FbxVolume, for every set of disks and clients.             *)
(***************************************************************************)
EXTENDS FbxVolume, TLAPS

-----------------------------------------------------------------------------
(* The inductive invariant *)

\* Where the loop sets a volume up there is none, the backend is mounted
\* between init and the end of the setup, and elsewhere exactly when there is
\* a volume.
SetupInv ==
  /\ pc \in {"clear", "init", "start"} => currvol = NULL
  /\ pc = "start" => mount \in Disk /\ inhibit = 0
  /\ VolumeIsMounted

\* An inhibited handler has nothing mounted.
InhibitInv == inhibit > 0 => mount = NULL

\* After shutdown the loop is on its way out.
ShutdownInv ==
  /\ DeadIsUnmounted
  /\ shutdown => pc \in {"packets", "shutdown?", "end"}

\* The loop will look at the drive before it sleeps for good.
WillLook ==
  \/ alarm
  \/ pc \in {"clear", "init"}
  \/ dosetup /\ (signalling \/ signals # {}
                  \/ pc \in {"setup?", "packets", "shutdown?"})

\* Either the last setup saw what is in the drive, or there will be another
\* one, or none is wanted.
LookInv == shutdown \/ inhibit > 0 \/ seen = Content \/ WillLook

IInv == TypeOK /\ SetupInv /\ InhibitInv /\ ShutdownInv /\ LookInv

-----------------------------------------------------------------------------
(* Steps *)

LEMMA NoVolumes == ~OkVolume(NULL) /\ ~OkVolume(BAD_DISK) /\ ~OkVolume(NO_SETUP)
BY ConstantAssumption DEF OkVolume, Sentinel

\* FbxCleanupVolume, called with a volume or without, leaves nothing mounted.
LEMMA CleanupUnmounts ==
  ASSUME IInv, pc # "start", FbxCleanupVolume
  PROVE  mount' = NULL /\ currvol' = NULL /\ seen' = seen
BY DEF IInv, SetupInv, VolumeIsMounted, FbxCleanupVolume

LEMMA InitInv == Init => IInv
<1> SUFFICES ASSUME Init PROVE IInv
  OBVIOUS
<1>1. TypeOK
  <2>1. packet \in [Client -> Packet \cup {NULL}] /\ queue \in Seq(Client)
    BY DEF Init
  <2>2. pc \in Label /\ signals \subseteq {"packet", "diskchange"}
    BY DEF Init, Label
  <2>3. seen \in (Disk \cup {NULL}) \X SUBSET Disk
    BY DEF Init
  <2> QED
    BY <2>1, <2>2, <2>3 DEF Init, TypeOK
<1>2. SetupInv /\ InhibitInv /\ ShutdownInv /\ LookInv
  BY NoVolumes DEF Init, SetupInv, InhibitInv, ShutdownInv, LookInv, WillLook,
     VolumeIsMounted, DeadIsUnmounted
<1> QED
  BY <1>1, <1>2 DEF IInv

\* What a packet does to the volume and the flags, whatever packet it is.
LEMMA PacketEffect ==
  ASSUME IInv, pc = "packets", NEW c \in Client, FbxDoPacket(c)
  PROVE  /\ media' = media /\ formatted' \subseteq Disk
         /\ formatted' # formatted => inhibit > 0 /\ inhibit' = inhibit
         /\ \/ UNCHANGED volume
            \/ mount' = NULL /\ currvol' = NULL /\ seen' = seen
         /\ inhibit' \in Nat /\ dosetup' \in BOOLEAN /\ shutdown' \in BOOLEAN
         /\ fssmcount' \in Nat
         /\ shutdown => shutdown'
         /\ shutdown' /\ ~shutdown => mount' = NULL /\ currvol' = NULL
         /\ dosetup => dosetup'
         /\ inhibit > 0 /\ inhibit' = 0 => dosetup'
         /\ inhibit' > 0 => mount' = NULL
<1> USE DEF IInv, TypeOK
<1>1. CASE FbxInhibit(TRUE)
  BY <1>1, CleanupUnmounts DEF FbxInhibit, InhibitInv, volume, drive
<1>2. CASE FbxInhibit(FALSE)
  <2>1. dosetup' = (dosetup \/ inhibit = 1)
    BY <1>2 DEF FbxInhibit
  <2>2. dosetup' \in BOOLEAN /\ (dosetup => dosetup') /\ (inhibit = 1 => dosetup')
    BY <2>1, Zenon
  <2>3. inhibit' \in Nat /\ (inhibit > 0 /\ inhibit' = 0 => inhibit = 1)
        /\ (inhibit' > 0 => inhibit > 0)
    BY <1>2 DEF FbxInhibit
  <2>4. UNCHANGED <<drive, volume, shutdown, fssmcount>>
    BY <1>2 DEF FbxInhibit
  <2> HIDE DEF IInv, TypeOK
  <2>5. formatted \subseteq Disk /\ shutdown \in BOOLEAN /\ fssmcount \in Nat
    BY DEF IInv, TypeOK
  <2> QED
    BY <2>2, <2>3, <2>4, <2>5 DEF IInv, InhibitInv, volume, drive
<1>3. CASE FbxFormat
  BY <1>3 DEF FbxFormat, InhibitInv, volume, flags
<1>4. CASE FbxObtainFSSM
  BY <1>4 DEF FbxObtainFSSM, InhibitInv, volume, drive
<1>5. CASE FbxReleaseFSSM
  BY <1>5 DEF FbxReleaseFSSM, InhibitInv, volume, drive
<1>6. CASE FbxDie
  BY <1>6, CleanupUnmounts DEF FbxDie, drive
<1>7. CASE UNCHANGED <<drive, volume, flags>>
  BY <1>7 DEF drive, volume, flags, InhibitInv
<1>8. \/ FbxInhibit(TRUE) \/ FbxInhibit(FALSE) \/ FbxFormat
      \/ FbxObtainFSSM \/ FbxReleaseFSSM \/ FbxDie
      \/ UNCHANGED <<drive, volume, flags>>
  BY DEF FbxDoPacket
<1> QED
  BY <1>1, <1>2, <1>3, <1>4, <1>5, <1>6, <1>7, <1>8

LEMMA PacketQueue ==
  ASSUME TypeOK, queue # <<>>, FbxDoPacket(Head(queue))
  PROVE  queue' \in Seq(Client) /\ packet' \in [Client -> Packet \cup {NULL}]
<1>1. Head(queue) \in Client /\ Tail(queue) \in Seq(Client)
  BY DEF TypeOK
<1>2. Reply(Head(queue)) \/ AllReplied
  BY DEF FbxDoPacket
<1>3. CASE Reply(Head(queue))
  BY <1>1, <1>3 DEF TypeOK, Reply
<1>4. CASE AllReplied
  BY <1>4 DEF AllReplied
<1> QED
  BY <1>2, <1>3, <1>4
-----------------------------------------------------------------------------
(* The invariant is inductive *)

LEMMA ContentType == TypeOK => Content \in (Disk \cup {NULL}) \X SUBSET Disk
BY DEF Content, TypeOK

LEMMA TypeStep == IInv /\ [Next]_vars => TypeOK'
<1> SUFFICES ASSUME IInv, [Next]_vars PROVE TypeOK'
  OBVIOUS
<1> USE DEF IInv, TypeOK
<1>1. CASE Change
  BY <1>1 DEF Change, volume, flags, packets
<1>2. CASE FbxDiskChangeHandler
  BY <1>2 DEF FbxDiskChangeHandler, drive, volume, packets
<1>3. CASE FbxSignalDiskChange
  BY <1>3 DEF FbxSignalDiskChange, drive, volume, flags, packets
<1>4. ASSUME NEW c \in Client, NEW p \in Packet, SendPacket(c, p) PROVE TypeOK'
  <2>1. queue' \in Seq(Client)
    <3>1. queue \in Seq(Client) /\ queue' = Append(queue, c)
      BY <1>4 DEF SendPacket
    <3> HIDE DEF IInv, TypeOK
    <3> QED
      BY <3>1
  <2>2. packet' \in [Client -> Packet \cup {NULL}]
    BY <1>4 DEF SendPacket
  <2>3. signals' \subseteq {"packet", "diskchange"}
    BY <1>4 DEF SendPacket
  <2>4. UNCHANGED <<drive, report, volume, flags, pc>>
    BY <1>4 DEF SendPacket
  <2> QED
    BY <2>1, <2>2, <2>3, <2>4 DEF drive, report, volume, flags
<1>5. CASE CheckSetup
  BY <1>5 DEF CheckSetup, FbxCleanupVolume, Label, drive, report, volume, flags,
     packets
<1>6. CASE ClearSetup
  BY <1>6 DEF ClearSetup, Label, drive, report, volume, packets
<1>7. CASE InitVolume
  <2>1. seen' \in (Disk \cup {NULL}) \X SUBSET Disk
    BY <1>7, ContentType DEF InitVolume
  <2>2. UNCHANGED <<drive, report, flags, signals, packets>>
    BY <1>7 DEF InitVolume
  <2>3. /\ mount' \in Disk \cup {NULL}
        /\ currvol' \in Disk \cup {NULL} \cup Sentinel
        /\ pc' \in Label
    BY <1>7 DEF InitVolume, Sentinel, Label
  <2> QED
    BY <2>1, <2>2, <2>3 DEF drive, report, flags, packets
<1>8. CASE StartVolume
  BY <1>8 DEF StartVolume, Label, drive, report, flags, packets
<1>9. CASE WaitSignals
  BY <1>9 DEF WaitSignals, Label, drive, report, volume, flags, packets
<1>10. CASE ServePacket
  <2>1. Head(queue) \in Client
    BY <1>10 DEF ServePacket
  <2>2. queue' \in Seq(Client) /\ packet' \in [Client -> Packet \cup {NULL}]
    BY <1>10, PacketQueue DEF ServePacket
  <2>3. pc = "packets" /\ FbxDoPacket(Head(queue))
        /\ UNCHANGED <<report, pc, signals>>
    BY <1>10 DEF ServePacket
  <2>4. /\ media' = media /\ formatted' \subseteq Disk
        /\ UNCHANGED volume \/ (mount' = NULL /\ currvol' = NULL /\ seen' = seen)
        /\ inhibit' \in Nat /\ dosetup' \in BOOLEAN /\ shutdown' \in BOOLEAN
        /\ fssmcount' \in Nat
    BY <2>1, <2>3, PacketEffect
  <2> QED
    BY <2>2, <2>3, <2>4 DEF report, volume
<1>11. CASE NoMorePackets
  BY <1>11 DEF NoMorePackets, Label, drive, report, volume, flags, packets
<1>12. CASE OtherSignal
  BY <1>12 DEF OtherSignal, Label, drive, report, volume, flags, packets
<1>13. CASE CheckShutdown
  BY <1>13 DEF CheckShutdown, Label, drive, report, volume, flags, packets
<1>14. CASE UNCHANGED vars
  BY <1>14 DEF vars, drive, report, volume, flags, packets
<1> QED
  BY <1>1, <1>2, <1>3, <1>4, <1>5, <1>6, <1>7, <1>8, <1>9, <1>10, <1>11, <1>12,
     <1>13, <1>14 DEF Next, FbxEventLoop

LEMMA SetupStep == IInv /\ [Next]_vars => SetupInv'
<1> SUFFICES ASSUME IInv, [Next]_vars PROVE SetupInv'
  OBVIOUS
<1> USE NoVolumes
<1>1. OkVolume(currvol)' <=> OkVolume(currvol')
  BY DEF OkVolume
<1>2. SetupInv
  BY DEF IInv
<1>3. CASE Change
  BY <1>2, <1>3 DEF Change, volume, flags, SetupInv, VolumeIsMounted, OkVolume
<1>4. CASE FbxDiskChangeHandler
  BY <1>2, <1>4 DEF FbxDiskChangeHandler, volume, SetupInv, VolumeIsMounted,
     OkVolume
<1>5. CASE FbxSignalDiskChange
  BY <1>2, <1>5 DEF FbxSignalDiskChange, volume, flags, SetupInv,
     VolumeIsMounted, OkVolume
<1>6. ASSUME NEW c \in Client, NEW p \in Packet, SendPacket(c, p) PROVE SetupInv'
  BY <1>2, <1>6 DEF SendPacket, volume, flags, SetupInv, VolumeIsMounted, OkVolume
<1>7. CASE CheckSetup
  <2>1. CASE dosetup
    BY <1>7, <2>1, CleanupUnmounts DEF CheckSetup, SetupInv, VolumeIsMounted,
       OkVolume
  <2>2. CASE ~dosetup
    BY <1>2, <1>7, <2>2 DEF CheckSetup, volume, SetupInv, VolumeIsMounted, OkVolume
  <2> QED
    BY <2>1, <2>2
<1>8. CASE ClearSetup
  BY <1>2, <1>8 DEF ClearSetup, volume, SetupInv, VolumeIsMounted, OkVolume
<1>9. CASE InitVolume
  <2>1. pc = "init" /\ currvol = NULL /\ mount = NULL
    BY <1>2, <1>9 DEF InitVolume, SetupInv, VolumeIsMounted
  <2>2. inhibit' = inhibit /\ formatted \subseteq Disk /\ inhibit \in Nat
    BY <1>9 DEF InitVolume, flags, IInv, TypeOK
  <2>3. CASE pc' = "wait" /\ mount' = NULL /\ currvol' \in {NULL, BAD_DISK, NO_SETUP}
    BY <2>3 DEF SetupInv, VolumeIsMounted, OkVolume
  <2>4. CASE pc' = "start" /\ mount' = media /\ media \in formatted /\ inhibit = 0
             /\ currvol' = NULL
    BY <2>2, <2>4 DEF SetupInv, VolumeIsMounted
  <2> QED
    BY <1>9, <2>1, <2>2, <2>3, <2>4 DEF InitVolume
<1>10. CASE StartVolume
  BY <1>2, <1>10 DEF StartVolume, SetupInv, VolumeIsMounted, OkVolume
<1>11. CASE WaitSignals
  BY <1>2, <1>11 DEF WaitSignals, volume, SetupInv, VolumeIsMounted, OkVolume
<1>12. CASE ServePacket
  <2>1. pc = "packets" /\ pc' = "packets" /\ FbxDoPacket(Head(queue))
    BY <1>12 DEF ServePacket
  <2>2. Head(queue) \in Client
    BY <1>12 DEF ServePacket, IInv, TypeOK
  <2>3. UNCHANGED volume \/ (mount' = NULL /\ currvol' = NULL)
    BY <2>1, <2>2, PacketEffect
  <2> QED
    BY <1>2, <2>1, <2>3 DEF volume, SetupInv, VolumeIsMounted, OkVolume
<1>13. CASE NoMorePackets
  BY <1>2, <1>13 DEF NoMorePackets, volume, SetupInv, VolumeIsMounted, OkVolume
<1>14. CASE OtherSignal
  BY <1>2, <1>14 DEF OtherSignal, volume, SetupInv, VolumeIsMounted, OkVolume
<1>15. CASE CheckShutdown
  BY <1>2, <1>15 DEF CheckShutdown, volume, SetupInv, VolumeIsMounted, OkVolume
<1>16. CASE UNCHANGED vars
  BY <1>2, <1>16 DEF vars, volume, flags, SetupInv, VolumeIsMounted, OkVolume
<1> QED
  BY <1>3, <1>4, <1>5, <1>6, <1>7, <1>8, <1>9, <1>10, <1>11, <1>12, <1>13, <1>14,
     <1>15, <1>16 DEF Next, FbxEventLoop

Environment ==
  \/ Change \/ FbxDiskChangeHandler \/ FbxSignalDiskChange
  \/ \E c \in Client, p \in Packet : SendPacket(c, p)

\* Nobody but the loop touches the volume or the loop's own state.
LEMMA EnvironmentEffect ==
  ASSUME Environment
  PROVE  UNCHANGED <<volume, inhibit, shutdown, pc>>
<1>1. CASE Change
  BY <1>1 DEF Change, flags
<1>2. CASE FbxDiskChangeHandler
  BY <1>2 DEF FbxDiskChangeHandler
<1>3. CASE FbxSignalDiskChange
  BY <1>3 DEF FbxSignalDiskChange, flags
<1>4. ASSUME NEW c \in Client, NEW p \in Packet, SendPacket(c, p)
      PROVE  UNCHANGED <<volume, inhibit, shutdown, pc>>
  BY <1>4 DEF SendPacket, flags
<1> QED
  BY <1>1, <1>2, <1>3, <1>4 DEF Environment

\* What the loop and its environment do to the volume outside of packets.
LEMMA InhibitAndShutdownStep == IInv /\ [Next]_vars => InhibitInv' /\ ShutdownInv'
<1> SUFFICES ASSUME IInv, [Next]_vars PROVE InhibitInv' /\ ShutdownInv'
  OBVIOUS
<1>1. InhibitInv /\ ShutdownInv /\ SetupInv
  BY DEF IInv
<1> USE DEF InhibitInv, ShutdownInv, DeadIsUnmounted
<1>2. CASE ServePacket
  <2>1. pc = "packets" /\ pc' = "packets" /\ FbxDoPacket(Head(queue))
    BY <1>2 DEF ServePacket
  <2>2. Head(queue) \in Client
    BY <1>2 DEF ServePacket, IInv, TypeOK
  <2>3. /\ UNCHANGED volume \/ (mount' = NULL /\ currvol' = NULL)
        /\ shutdown' /\ ~shutdown => mount' = NULL /\ currvol' = NULL
        /\ inhibit' > 0 => mount' = NULL
    BY <2>1, <2>2, PacketEffect
  <2> QED
    BY <1>1, <2>1, <2>3 DEF volume
<1>3. CASE CheckSetup
  BY <1>1, <1>3, CleanupUnmounts DEF CheckSetup, flags, volume
<1>4. CASE InitVolume
  <2>1. pc = "init" /\ ~shutdown /\ inhibit' = inhibit /\ shutdown' = shutdown
    BY <1>1, <1>4 DEF InitVolume, flags
  <2>2. mount = NULL
    BY <1>1, <2>1, NoVolumes DEF SetupInv, VolumeIsMounted
  <2>3. inhibit > 0 => mount' = mount
    BY <1>4 DEF InitVolume
  <2> QED
    BY <2>1, <2>2, <2>3
<1>5. CASE StartVolume
  BY <1>1, <1>5 DEF StartVolume, flags, SetupInv
<1>6. CASE CheckShutdown
  BY <1>1, <1>6 DEF CheckShutdown, flags, volume
<1>7. CASE NoMorePackets \/ WaitSignals \/ OtherSignal \/ ClearSetup
  BY <1>1, <1>7 DEF NoMorePackets, WaitSignals, OtherSignal, ClearSetup, flags,
     volume
<1>8. CASE Environment \/ UNCHANGED vars
  BY <1>1, <1>8, EnvironmentEffect DEF vars, flags, volume
<1> QED
  BY <1>2, <1>3, <1>4, <1>5, <1>6, <1>7, <1>8 DEF Next, FbxEventLoop, Environment

LEMMA LookStep == IInv /\ [Next]_vars => LookInv'
<1> SUFFICES ASSUME IInv, [Next]_vars PROVE LookInv'
  OBVIOUS
<1>1. LookInv /\ inhibit \in Nat
  BY DEF IInv, TypeOK
<1>2. Content' = <<media', formatted' \cap {media'}>>
  BY DEF Content
<1> USE DEF LookInv, WillLook
<1>3. CASE Change
  BY <1>3 DEF Change
<1>4. CASE FbxDiskChangeHandler
  BY <1>4 DEF FbxDiskChangeHandler
<1>5. CASE FbxSignalDiskChange
  BY <1>1, <1>2, <1>5 DEF FbxSignalDiskChange, drive, volume, flags, Content
<1>6. ASSUME NEW c \in Client, NEW p \in Packet, SendPacket(c, p) PROVE LookInv'
  BY <1>1, <1>2, <1>6 DEF SendPacket, drive, report, volume, flags, Content
<1>7. CASE CheckSetup
  BY <1>1, <1>2, <1>7 DEF CheckSetup, drive, report, volume, flags, Content
<1>8. CASE ClearSetup
  BY <1>8 DEF ClearSetup
<1>9. CASE InitVolume
  <2>1. UNCHANGED <<media, formatted, inhibit>>
    BY <1>9 DEF InitVolume, drive, flags
  <2>2. inhibit > 0 \/ seen' = Content
    BY <1>9 DEF InitVolume
  <2> QED
    BY <1>2, <2>1, <2>2 DEF Content
<1>10. CASE StartVolume
  BY <1>1, <1>2, <1>10 DEF StartVolume, drive, report, flags, Content
<1>11. CASE WaitSignals
  BY <1>1, <1>2, <1>11 DEF WaitSignals, drive, report, volume, flags, Content
<1>12. CASE ServePacket
  <2>1. pc = "packets" /\ pc' = pc /\ FbxDoPacket(Head(queue))
        /\ UNCHANGED <<report, signals>>
    BY <1>12 DEF ServePacket
  <2>2. Head(queue) \in Client
    BY <1>12 DEF ServePacket, IInv, TypeOK
  <2>3. /\ media' = media
        /\ formatted' # formatted => inhibit > 0 /\ inhibit' = inhibit
        /\ seen' = seen
        /\ inhibit' \in Nat
        /\ shutdown => shutdown'
        /\ dosetup => dosetup'
        /\ inhibit > 0 /\ inhibit' = 0 => dosetup'
    <3> HIDE DEF LookInv, WillLook
    <3> QED
      BY <2>1, <2>2, PacketEffect DEF volume
  <2>4. inhibit' > 0 \/ inhibit' = 0
    BY <2>3
  <2> QED
    BY <1>1, <1>2, <2>1, <2>3, <2>4 DEF report, Content
<1>13. CASE NoMorePackets
  BY <1>1, <1>2, <1>13 DEF NoMorePackets, drive, report, volume, flags, Content
<1>14. CASE OtherSignal
  BY <1>1, <1>2, <1>14 DEF OtherSignal, drive, report, volume, flags, Content
<1>15. CASE CheckShutdown
  BY <1>1, <1>2, <1>15 DEF CheckShutdown, drive, report, volume, flags, Content
<1>16. CASE UNCHANGED vars
  BY <1>1, <1>2, <1>16 DEF vars, drive, report, volume, flags, Content
<1> QED
  BY <1>3, <1>4, <1>5, <1>6, <1>7, <1>8, <1>9, <1>10, <1>11, <1>12, <1>13, <1>14,
     <1>15, <1>16 DEF Next, FbxEventLoop

-----------------------------------------------------------------------------
(* Safety *)

\* The inductive invariant holds in every reachable state: FbxEventLoop,
\* FbxSetupVolume, FbxInhibit and FbxDie keep the volume, the flags and the
\* signals consistent however the interrupt and the clients interleave.
THEOREM Invariance == Spec => []IInv
<1>1. IInv /\ [Next]_vars => IInv'
  BY TypeStep, SetupStep, InhibitAndShutdownStep, LookStep DEF IInv
<1> QED
  BY InitInv, <1>1, PTL DEF Spec

\* Every variable keeps its type; inhibit and fssmcount never go below zero,
\* whatever ends and releases clients send (FbxInhibit, FbxReleaseFSSM).
THEOREM TypeCorrect == Spec => []TypeOK
<1>1. IInv => TypeOK
  BY DEF IInv
<1> QED
  BY Invariance, <1>1, PTL

\* No change of disk is lost between dosetup and the signal (FbxEventLoop).
THEOREM NoLostChangeHolds == Spec => []NoLostChange
<1>1. IInv => NoLostChange
  BY DEF IInv, LookInv, WillLook, NoLostChange
<1> QED
  BY Invariance, <1>1, PTL

\* The backend is mounted exactly when there is a volume, whatever failed in
\* FbxSetupVolume.
THEOREM VolumeIsMountedHolds == Spec => []VolumeIsMounted
<1>1. IInv => VolumeIsMounted
  BY DEF IInv, SetupInv
<1> QED
  BY Invariance, <1>1, PTL

\* After FbxDie nothing is mounted again.
THEOREM DeadIsUnmountedHolds == Spec => []DeadIsUnmounted
<1>1. IInv => DeadIsUnmounted
  BY DEF IInv, ShutdownInv
<1> QED
  BY Invariance, <1>1, PTL

-----------------------------------------------------------------------------
(* FbxVolume implements FbxMount *)

LEMMA PacketRefines ==
  ASSUME IInv, ServePacket
  PROVE  Backend!Next \/ UNCHANGED Backend!vars
<1> USE DEF Backend!Next, Backend!vars
<1>1. pc = "packets" /\ FbxDoPacket(Head(queue)) /\ inhibit \in Nat
  BY DEF ServePacket, IInv, TypeOK
<1>2. InhibitInv
  BY DEF IInv
<1>3. CASE FbxInhibit(TRUE)
  <2>1. mount' = NULL
    BY <1>1, <1>2, <1>3, CleanupUnmounts DEF FbxInhibit, InhibitInv, volume
  <2>2. Backend!Inhibit
    BY <1>3, <2>1 DEF FbxInhibit, drive, Backend!Inhibit
  <2> QED
    BY <2>2
<1>4. CASE FbxInhibit(FALSE)
  <2>1. CASE inhibit > 0
    BY <1>4, <2>1 DEF FbxInhibit, drive, volume, Backend!Permit
  <2>2. CASE ~(inhibit > 0)
    BY <1>4, <2>2 DEF FbxInhibit, drive, volume
  <2> QED
    BY <2>1, <2>2
<1>5. CASE FbxFormat
  <2>1. NULL \notin formatted
    BY ConstantAssumption DEF IInv, TypeOK
  <2>2. CASE formatted' = formatted
    BY <1>5, <2>2 DEF FbxFormat, volume, flags
  <2>3. CASE formatted' # formatted
    <3>1. inhibit > 0 /\ media # NULL
          /\ formatted' \in {formatted \cup {media}, formatted \ {media}}
      BY <1>5, <2>1, <2>3 DEF FbxFormat
    <3>2. Backend!Format
      BY <1>2, <1>5, <3>1 DEF FbxFormat, InhibitInv, volume, flags, Backend!Format
    <3> QED
      BY <3>2
  <2> QED
    BY <2>2, <2>3
<1>6. CASE FbxObtainFSSM \/ FbxReleaseFSSM \/ UNCHANGED <<drive, volume, flags>>
  BY <1>6 DEF FbxObtainFSSM, FbxReleaseFSSM, drive, volume, flags
<1>7. CASE FbxDie
  <2>1. mount' = NULL
    BY <1>1, <1>7, CleanupUnmounts DEF FbxDie
  <2>2. CASE mount = NULL
    BY <1>7, <2>1, <2>2 DEF FbxDie, drive
  <2>3. CASE mount # NULL
    BY <1>7, <2>1, <2>3 DEF FbxDie, drive, Backend!Unmount
  <2> QED
    BY <2>2, <2>3
<1> QED
  BY <1>1, <1>3, <1>4, <1>5, <1>6, <1>7 DEF FbxDoPacket

LEMMA StepRefines == IInv /\ [Next]_vars => [Backend!Next]_(Backend!vars)
<1> SUFFICES ASSUME IInv, [Next]_vars
             PROVE  Backend!Next \/ UNCHANGED Backend!vars
  OBVIOUS
<1>1. CASE ServePacket
  BY <1>1, PacketRefines
<1> USE DEF Backend!Next, Backend!vars
<1>2. CASE Change
  BY <1>2 DEF Change, volume, flags, Backend!Change
<1>3. CASE CheckSetup
  <2>1. CASE dosetup /\ mount # NULL
    BY <1>3, <2>1, CleanupUnmounts DEF CheckSetup, drive, flags, Backend!Unmount
  <2>2. CASE dosetup /\ mount = NULL
    BY <1>3, <2>2, CleanupUnmounts DEF CheckSetup, drive, flags
  <2>3. CASE ~dosetup
    BY <1>3, <2>3 DEF CheckSetup, drive, volume, flags
  <2> QED
    BY <2>1, <2>2, <2>3
<1>4. CASE InitVolume
  <2>1. mount = NULL /\ inhibit \in Nat
    BY <1>4, NoVolumes DEF InitVolume, IInv, TypeOK, SetupInv, VolumeIsMounted
  <2>2. CASE UNCHANGED mount
    BY <1>4, <2>2 DEF InitVolume, drive, flags
  <2>3. CASE mount' # mount
    BY <1>4, <2>1, <2>3 DEF InitVolume, drive, flags, Backend!Mount
  <2> QED
    BY <2>2, <2>3
<1>5. CASE StartVolume
  <2>1. mount # NULL
    BY <1>5, ConstantAssumption DEF StartVolume, IInv, SetupInv
  <2> QED
    BY <1>5, <2>1 DEF StartVolume, drive, flags, Backend!Unmount
<1>6. CASE FbxDiskChangeHandler \/ FbxSignalDiskChange
  BY <1>6 DEF FbxDiskChangeHandler, FbxSignalDiskChange, drive, volume, flags
<1>7. ASSUME NEW c \in Client, NEW p \in Packet, SendPacket(c, p)
      PROVE  UNCHANGED Backend!vars
  BY <1>7 DEF SendPacket, drive, volume, flags
<1>8. CASE ClearSetup \/ WaitSignals \/ NoMorePackets \/ OtherSignal
  BY <1>8 DEF ClearSetup, WaitSignals, NoMorePackets, OtherSignal, drive, volume,
     flags
<1>9. CASE CheckShutdown \/ UNCHANGED vars
  BY <1>9 DEF CheckShutdown, vars, drive, volume, flags
<1> QED
  BY <1>1, <1>2, <1>3, <1>4, <1>5, <1>6, <1>7, <1>8, <1>9 DEF Next, FbxEventLoop

\* Every run of the handler is one that FbxMount allows: init and destroy
\* alternate, init finds an uninhibited handler with nothing mounted, and
\* format an inhibited one (FbxSetupVolume, FbxCleanupVolume, FbxFormat).
THEOREM Refinement == Spec => BackendPromise
<1>1. Init => Backend!Init
  BY DEF Init, Backend!Init
<1> QED
  BY Invariance, StepRefines, <1>1, PTL DEF Spec, BackendPromise, Backend!Spec
=============================================================================
