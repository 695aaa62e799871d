---------------------------- MODULE FbxLockHandler ----------------------------
(***************************************************************************)
(* The shutdown of a handler that programs still have locks and notify     *)
(* requests of, and the lock handler process that answers for them then.   *)
(*                                                                         *)
(* An object is a lock (with or without a file handle) or a request.  It   *)
(* names the message port of the process that answers for it, and its      *)
(* owner sends packets to that port.  FbxDie hands the objects over one by *)
(* one: it sets the port and waits for the lock handler to collect the     *)
(* object.  Then it redirects what its own port holds, and ends.           *)
(*                                                                         *)
(* Objects can be on a volume whose disk has been removed before.  One     *)
(* that is lost on the way is in `forgotten', and one whose owner has sent *)
(* a packet to a port that is not read any more is in `late'.              *)
(***************************************************************************)
EXTENDS Naturals, Sequences, FiniteSets

CONSTANTS
  Lock,           \* locks and open files
  Request,        \* notify requests
  Volume,
  VolumeOf,       \* the volume that each object is on
  NULL,
  CanFail,        \* the objects for which the lock handler can lack memory
  HandlerFirst    \* programs do not run while the handler can

Object == Lock \cup Request

ASSUME ConstantAssumption ==
  /\ Lock \cap Request = {} /\ NULL \notin Object \cup Volume \cup {"fs", "lh"}
  /\ VolumeOf \in [Object -> Volume]
  /\ CanFail \subseteq Object /\ HandlerFirst \in BOOLEAN

VARIABLES
  home,           \* the port an object names: taskmp, fh_Type, nr_Handler
  exists,         \* the objects that are not freed
  table,          \* the objects in the lists of the handler's volumes
  list,           \* locklist and notifylist of the lock handler
  forgotten,      \* history: objects that got lost (README.md, section 16)
  current,        \* currvol, or NULL when the disk of none of them is in
  request,        \* what each owner wants of its object
  target,         \* the port an owner has read and not yet sent to
  answer,         \* the answer to each owner's last packet
  late,           \* history: objects with a packet to the handler that was
                  \* about to be sent when FbxDie handed the object over, and
                  \* was sent after the handler's last look at its port
  fsport, lhport, \* the packets at the two ports
  pc, item,       \* where the handler is, and the object it hands over
  lhpc, wake,     \* where the lock handler is, and whether it has a signal
  users           \* lhproc_refcount

objects  == <<home, exists, table, list, forgotten, current>>
programs == <<request, target, answer, late>>
ports    == <<fsport, lhport>>
handler  == <<pc, item>>
helper   == <<lhpc, wake, users>>
vars     == <<objects, programs, ports, handler, helper>>

None == "none"
Collect(o) == <<"collect", o>>
Packet(o)  == <<"packet", o>>

-----------------------------------------------------------------------------
(* Programs *)

\* Programs run when the handler waits: for packets, for the backend or for
\* the lock handler; and when it has ended.
ProgramsRun == HandlerFirst => pc \in {"run", "collect", "gone"}

\* PutMsg.
Put(port, packet) ==
  IF port = "fs" THEN fsport' = Append(fsport, packet) /\ UNCHANGED <<lhport, wake>>
                 ELSE /\ lhport' = Append(lhport, packet) /\ wake' = TRUE
                      /\ UNCHANGED fsport

\* An owner decides to use its lock, or to free its object, and reads the port.
Ask(o) ==
  /\ ProgramsRun
  /\ o \in exists /\ request[o] = None /\ answer[o] # "refused"
  /\ \E op \in {"use", "free"} : /\ op = "use" => o \in Lock
                                 /\ request' = [request EXCEPT ![o] = op]
  /\ target' = [target EXCEPT ![o] = home[o]]
  /\ UNCHANGED <<objects, answer, late, ports, handler, helper>>

SendPacket(o) ==
  /\ ProgramsRun
  /\ target[o] # NULL
  /\ Put(target[o], Packet(o))
  /\ target' = [target EXCEPT ![o] = NULL]
  /\ late' = IF target[o] = "fs" /\ home[o] = "lh" /\ pc \in {"cleanup", "gone"}
             THEN late \cup {o} ELSE late
  /\ UNCHANGED <<objects, request, answer, handler, lhpc, users>>

-----------------------------------------------------------------------------
(* Answers *)

\* A process answers a packet about o.  Freeing works for what is in a list of
\* the process; the answer to a use is given.
Answer(o, where, use) ==
  /\ request' = [request EXCEPT ![o] = None]
  /\ IF request[o] = "free" /\ o \in where
     THEN exists' = exists \ {o} /\ answer' = [answer EXCEPT ![o] = "freed"]
     ELSE /\ answer' = [answer EXCEPT ![o] =
                         IF request[o] = "free" THEN "refused" ELSE use]
          /\ UNCHANGED exists

Without(o, where) == IF request[o] = "free" THEN where \ {o} ELSE where

\* A lock is valid for the handler while it has it (FbxCheckLock); of a request
\* it only asks whether it names its port.
Accepted == table \cup {r \in Request : home[r] = "fs"}

\* FbxEndLock frees a volume that is offline with its last lock, whatever
\* requests are on it.
LastOffline(o) ==
  /\ request[o] = "free" /\ o \in table \cap Lock /\ VolumeOf[o] # current
  /\ \A p \in table \cap Lock : VolumeOf[p] = VolumeOf[o] => p = o

Lost(o) ==
  IF LastOffline(o) THEN {r \in table \cap Request : VolumeOf[r] = VolumeOf[o]} ELSE {}

UseAtHandler(o) ==
  IF o \notin table THEN "refused" ELSE IF VolumeOf[o] = current THEN "ok" ELSE "nodisk"

ServeAtHandler(o) ==
  /\ Answer(o, Accepted, UseAtHandler(o))
  /\ table' = Without(o, table) \ Lost(o)
  /\ forgotten' = forgotten \cup Lost(o)
  /\ UNCHANGED list

ServeAtLockHandler(o) ==
  /\ Answer(o, list, "nodisk")
  /\ list' = Without(o, list)
  /\ UNCHANGED <<table, forgotten>>

-----------------------------------------------------------------------------
(* The handler *)

\* FbxHandlePackets.  After FbxDie it goes on until the port is empty; no lock
\* is valid for it then.
HandlePacket ==
  /\ pc \in {"run", "rest"}
  /\ fsport # <<>>
  /\ ServeAtHandler(Head(fsport)[2])
  /\ fsport' = Tail(fsport)
  /\ UNCHANGED <<home, current, target, late, lhport, handler, helper>>

\* FbxCleanupVolume: the disk is removed.  A volume with locks or requests is
\* kept, offline.
FbxCleanupVolume ==
  /\ pc = "run" /\ current # NULL
  /\ current' = NULL
  /\ UNCHANGED <<home, exists, table, list, forgotten, programs, ports, handler, helper>>

\* Mutant of FbxDie: FbxCleanupVolume looks for locks only, and the volume is
\* freed with the requests on it.
DieKeepsLocks ==
  /\ pc = "run"
  /\ pc' = "die" /\ current' = NULL
  /\ table' = IF \E o \in table \cap Lock : VolumeOf[o] = current THEN table
              ELSE {o \in table : VolumeOf[o] # current}
  /\ UNCHANGED <<home, exists, list, forgotten, programs, ports, item, helper>>

\* FbxDie begins, with FbxCleanupVolume.
FbxDie ==
  /\ pc = "run"
  /\ pc' = "die" /\ current' = NULL
  /\ UNCHANGED <<home, exists, table, list, forgotten, programs, ports, item, helper>>

\* FbxCollectLock and FbxCollectNotifyNode: the object is out of all lists of
\* the handler and names the lock handler's port.
FbxCollect ==
  /\ pc = "die"
  /\ \E o \in table :
       /\ table' = table \ {o} /\ item' = o
       /\ home' = [home EXCEPT ![o] = "lh"]
  /\ pc' = "send"
  /\ UNCHANGED <<exists, list, forgotten, current, programs, ports, helper>>

\* DoPkt sends ACTION_COLLECT and waits for the answer.
SendCollect ==
  /\ pc = "send"
  /\ Put("lh", Collect(item))
  /\ pc' = "collect"
  /\ UNCHANGED <<objects, programs, item, lhpc, users>>

\* Mutant of Redirect: the packets that wait are dropped.
RedirectNothing ==
  /\ pc = "die" /\ table = {}
  /\ fsport' = <<>>
  /\ pc' = "rest"
  /\ UNCHANGED <<objects, programs, item, lhport, helper>>

\* Mutant of Redirect: the handler answers the packets itself.
NotRedirected ==
  /\ pc = "die" /\ table = {}
  /\ pc' = "rest"
  /\ UNCHANGED <<objects, programs, item, ports, helper>>

\* Everything is handed over: packets that wait go to the lock handler.
Redirect ==
  /\ pc = "die" /\ table = {}
  /\ lhport' = lhport \o fsport /\ fsport' = <<>>
  /\ wake' = (wake \/ fsport # <<>>)
  /\ pc' = "rest"
  /\ UNCHANGED <<objects, programs, item, lhpc, users>>

\* The event loop ends when the port is found empty.
EndLoop ==
  /\ pc = "rest" /\ fsport = <<>>
  /\ pc' = "cleanup"
  /\ UNCHANGED <<objects, programs, ports, item, helper>>

\* Mutant of FbxCleanupFS: the lock handler gets no signal.
CleanupQuietly ==
  /\ pc = "cleanup"
  /\ pc' = "gone"
  /\ users' = users - 1
  /\ UNCHANGED <<objects, programs, ports, item, lhpc, wake>>

\* FbxCleanupFS leaves the lock handler and deletes the port.
FbxCleanupFS ==
  /\ pc = "cleanup"
  /\ pc' = "gone"
  /\ users' = users - 1
  /\ wake' = (wake \/ users' = 0)
  /\ UNCHANGED <<objects, programs, ports, item, lhpc>>

-----------------------------------------------------------------------------
(* FbxLockHandlerProc *)

Wake ==
  /\ lhpc = "wait" /\ wake
  /\ lhpc' = "packets" /\ wake' = FALSE
  /\ UNCHANGED <<objects, programs, ports, handler, users>>

\* ACTION_COLLECT; the handler goes on.  Without memory for a node the object
\* is not collected, and FbxDie does not look at the answer.
ServeCollect ==
  /\ lhpc = "packets" /\ lhport # <<>> /\ Head(lhport)[1] = "collect"
  /\ LET o == Head(lhport)[2] IN
     \/ list' = list \cup {o} /\ UNCHANGED forgotten
     \/ o \in CanFail /\ forgotten' = forgotten \cup {o} /\ UNCHANGED list
  /\ pc' = "die" /\ item' = NULL
  /\ lhport' = Tail(lhport)
  /\ UNCHANGED <<home, exists, table, current, programs, fsport, helper>>

\* Any other packet: freeing a lock (ACTION_END for a file), removing a
\* request; all else ends with ERROR_NO_DISK.
ServePacket ==
  /\ lhpc = "packets" /\ lhport # <<>> /\ Head(lhport)[1] = "packet"
  /\ ServeAtLockHandler(Head(lhport)[2])
  /\ lhport' = Tail(lhport)
  /\ UNCHANGED <<home, current, target, late, fsport, handler, helper>>

\* Mutant of CheckEnd: only the users count.
CheckUsersOnly ==
  /\ lhpc = "packets" /\ lhport = <<>>
  /\ lhpc' = IF users = 0 THEN "sema" ELSE "wait"
  /\ UNCHANGED <<objects, programs, ports, handler, wake, users>>

\* No users and nothing to answer for: the lock handler may end.
CheckEnd ==
  /\ lhpc = "packets" /\ lhport = <<>>
  /\ lhpc' = IF users = 0 /\ list = {} THEN "sema" ELSE "wait"
  /\ UNCHANGED <<objects, programs, ports, handler, wake, users>>

End ==
  /\ lhpc = "sema"
  /\ lhpc' = IF users = 0 THEN "none" ELSE "wait"
  /\ UNCHANGED <<objects, programs, ports, handler, wake, users>>

-----------------------------------------------------------------------------
Init ==
  /\ home = [o \in Object |-> "fs"]
  /\ exists = Object /\ table = Object /\ list = {} /\ forgotten = {}
  /\ current \in Volume \cup {NULL} /\ late = {}
  /\ request = [o \in Object |-> None] /\ target = [o \in Object |-> NULL]
  /\ answer = [o \in Object |-> "ok"]
  /\ fsport = <<>> /\ lhport = <<>>
  /\ pc = "run" /\ item = NULL
  /\ lhpc = "wait" /\ wake = FALSE /\ users = 1

Handler ==
  \/ HandlePacket \/ FbxCleanupVolume \/ FbxDie \/ FbxCollect \/ SendCollect
  \/ Redirect \/ EndLoop \/ FbxCleanupFS

LockHandler == Wake \/ ServeCollect \/ ServePacket \/ CheckEnd \/ End

Next ==
  \/ \E o \in Object : Ask(o) \/ SendPacket(o)
  \/ Handler \/ LockHandler

Spec == Init /\ [][Next]_vars

\* The processes get their turn, and so does a program that is about to send.
\* Nothing makes programs ask, or a program send ACTION_DIE.
FairSpec ==
  /\ Spec
  /\ WF_vars(Handler /\ pc # "run") /\ WF_vars(HandlePacket)
  /\ WF_vars(LockHandler)
  /\ \A o \in Object : WF_vars(SendPacket(o))

\* ACTION_DIE is sent in the end, and programs free what they have.
PoliteSpec ==
  /\ FairSpec
  /\ WF_vars(FbxDie)
  /\ \A o \in Object : SF_vars(Ask(o) /\ request'[o] = "free")

-----------------------------------------------------------------------------
(* Properties *)

TypeOK ==
  /\ home \in [Object -> {"fs", "lh"}]
  /\ exists \subseteq Object /\ table \subseteq Object /\ list \subseteq Object
  /\ forgotten \subseteq Object /\ late \subseteq Object
  /\ current \in Volume \cup {NULL}
  /\ answer \in [Object -> {"ok", "nodisk", "freed", "refused"}]
  /\ request \in [Object -> {None, "use", "free"}]
  /\ target \in [Object -> {"fs", "lh", NULL}]
  /\ fsport \in Seq({Packet(o) : o \in Object})
  /\ lhport \in Seq({Packet(o) : o \in Object} \cup {Collect(o) : o \in Object})
  /\ pc \in {"run", "die", "send", "collect", "rest", "cleanup", "gone"}
  /\ item \in Object \cup {NULL}
  /\ lhpc \in {"wait", "packets", "sema", "none"} /\ wake \in BOOLEAN
  /\ users \in 0..1

\* The port that an object names belongs to the process that has the object in
\* a list, except for the one that is being handed over.
OwnerAnswers ==
  \A o \in exists \ (forgotten \cup {item}) :
    o \in (IF home[o] = "fs" THEN table ELSE list)

\* No packet is left at a port that nobody reads, the handler's or the lock
\* handler's, unless its object got lost or its owner had read the handler's
\* port before the object was handed over and was late.
NothingStranded ==
  /\ pc = "gone" => \A i \in DOMAIN fsport : fsport[i][2] \in forgotten \cup late
  /\ lhpc = "none" => \A i \in DOMAIN lhport : lhport[i][2] \in forgotten

\* The two processes together give what FbxObjects promises about the locks,
\* unless memory lacks.
Reliable == Lock \ CanFail
Service == INSTANCE FbxObjects WITH
             Object  <- Reliable,
             exists  <- exists \cap Reliable,
             request <- [o \in Reliable |-> request[o]],
             answer  <- [o \in Reliable |-> answer[o]]
ServicePromise == Service!Spec

\* Every packet is answered, before, during and after the shutdown, but for those
\* that were late or are about an object that got lost.
Answered ==
  \A o \in Object :
    request[o] # None ~> request[o] = None \/ o \in forgotten \cup late

\* When all that was handed over is freed, the lock handler ends.  A late packet
\* leaves its object behind, and the lock handler with it.
HelperEnds ==
  <>[](/\ exists \subseteq forgotten \cup late
       /\ late \subseteq forgotten => lhpc = "none")
=============================================================================
