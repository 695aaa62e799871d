------------------------------ MODULE FbxLibrary ------------------------------
(***************************************************************************)
(* The library in memory, the handlers that use it and its two helper      *)
(* processes: "dl" for the DOS list and "lh", the lock handler.  Handlers  *)
(* are set up and cleaned up at any time, and share the helpers and their  *)
(* reference counts; the system unloads the library when it may.  All      *)
(* handlers here belong to one device node, or to none.                    *)
(*                                                                         *)
(* What holds procsema is one step.  The pointer libBase->dlproc (lhvolume *)
(* for the lock handler) is NULL when proc is "none".                      *)
(***************************************************************************)
EXTENDS Integers, FiniteSets

CONSTANTS
  Handler,        \* handler processes
  NULL,
  CanFail         \* what of FbxSetupFS can fail: "start" is the start of a
                  \* helper, "setup" anything before it

ASSUME ConstantAssumption ==
  /\ NULL \notin Handler /\ IsFiniteSet(Handler)
  /\ CanFail \subseteq {"setup", "start"}

VARIABLES
  loaded,         \* the library is in memory
  openCnt,        \* lib_OpenCnt
  proc,           \* what a helper process does
  refcount,       \* libBase->dlproc_refcount, lhproc_refcount
  held,           \* the lock handler has locks or requests
  pc,             \* where a handler is
  cur,            \* the helper that a handler joins or leaves now
  ports,          \* the helpers whose port the handler has got
  dntask,         \* dn_Task: the handler that answers for the device
  devnode,        \* fs->devnode is set
  starting        \* the handler whose startup packet is not answered yet

helpers == <<proc, refcount, held>>
device  == <<dntask, devnode, starting>>
vars    == <<loaded, openCnt, helpers, pc, cur, ports, device>>

Helper == {"dl", "lh"}

Joining(h, p) == pc[h] = "check" /\ cur[h] = p

\* The handlers that have been counted in for a helper and not out.
Users(p) == {h \in Handler : p \in ports[h] \/ Joining(h, p)}

-----------------------------------------------------------------------------
(* The library *)

\* A handler process opens the library, which is loaded if it has to be.  DOS
\* starts a handler for the device when it has none, one at a time; other
\* handlers run on their own.
LibOpen(h) ==
  /\ pc[h] = "out"
  /\ loaded' = TRUE
  /\ openCnt' = openCnt + 1
  /\ pc' = [pc EXCEPT ![h] = "setup"]
  /\ \/ /\ dntask = NULL /\ starting = NULL
        /\ starting' = h /\ devnode' = [devnode EXCEPT ![h] = TRUE]
     \/ UNCHANGED <<starting, devnode>>
  /\ UNCHANGED <<helpers, cur, ports, dntask>>

LibClose(h) ==
  /\ pc[h] = "close"
  /\ openCnt' = openCnt - 1
  /\ pc' = [pc EXCEPT ![h] = "out"]
  /\ UNCHANGED <<loaded, helpers, cur, ports, device>>

\* Mutant of LibExpunge: only the open count is looked at.
ExpungeUnused ==
  /\ loaded /\ openCnt = 0
  /\ loaded' = FALSE
  /\ UNCHANGED <<openCnt, helpers, pc, cur, ports, device>>

LibExpunge ==
  /\ loaded /\ openCnt = 0
  /\ \A p \in Helper : proc[p] = "none"
  /\ loaded' = FALSE
  /\ UNCHANGED <<openCnt, helpers, pc, cur, ports, device>>

-----------------------------------------------------------------------------
(* FbxSetupFS *)

\* The startup packet is answered.
Answer(h) == starting' = IF starting = h THEN NULL ELSE starting

\* Everything FbxSetupFS does before it needs the helpers.
SetupResources(h) ==
  /\ pc[h] = "setup"
  /\ \/ /\ pc' = [pc EXCEPT ![h] = "join"]
        /\ cur' = [cur EXCEPT ![h] = "dl"]
        /\ UNCHANGED starting
     \/ /\ "setup" \in CanFail
        /\ pc' = [pc EXCEPT ![h] = "cleanup"]
        /\ Answer(h) /\ UNCHANGED cur
  /\ UNCHANGED <<loaded, openCnt, helpers, ports, dntask, devnode>>

\* Mutant of JoinHelper: the handler counts itself only if it starts one.
JoinUncounted(h) ==
  /\ pc[h] = "join"
  /\ LET p == cur[h] IN
       /\ proc' = [proc EXCEPT ![p] = IF @ = "none" THEN "run" ELSE @]
       /\ refcount' = IF proc[p] = "none"
                      THEN [refcount EXCEPT ![p] = @ + 1] ELSE refcount
  /\ pc' = [pc EXCEPT ![h] = "check"]
  /\ UNCHANGED <<loaded, openCnt, held, cur, ports, device>>

\* With procsema: the helper is started if there is none, and counted if there
\* is one now.
JoinHelper(h) ==
  /\ pc[h] = "join"
  /\ LET p == cur[h] IN
     \/ /\ proc' = [proc EXCEPT ![p] = IF @ = "none" THEN "run" ELSE @]
        /\ refcount' = [refcount EXCEPT ![p] = @ + 1]
     \/ /\ "start" \in CanFail /\ proc[p] = "none"
        /\ UNCHANGED <<proc, refcount>>
  /\ pc' = [pc EXCEPT ![h] = "check"]
  /\ UNCHANGED <<loaded, openCnt, held, cur, ports, device>>

\* Without procsema: is there a helper?  After the second one the handler
\* takes the device over and answers the startup packet.
CheckHelper(h) ==
  /\ pc[h] = "check"
  /\ LET p == cur[h] IN
     IF proc[p] = "none"
     THEN /\ pc' = [pc EXCEPT ![h] = "cleanup"]
          /\ Answer(h) /\ UNCHANGED <<ports, cur, dntask>>
     ELSE /\ ports' = [ports EXCEPT ![h] = @ \cup {p}]
          /\ IF p = "dl"
             THEN /\ pc' = [pc EXCEPT ![h] = "join"]
                  /\ cur' = [cur EXCEPT ![h] = "lh"]
                  /\ UNCHANGED <<starting, dntask>>
             ELSE /\ pc' = [pc EXCEPT ![h] = "up"]
                  /\ dntask' = IF devnode[h] THEN h ELSE dntask
                  /\ Answer(h) /\ UNCHANGED cur
  /\ UNCHANGED <<loaded, openCnt, helpers, devnode>>

-----------------------------------------------------------------------------
(* Shutdown and FbxCleanupFS *)

\* FbxDie clears dn_Task, so that the next access starts a new handler, and
\* gives locks and requests that are left to the lock handler.  The event
\* loop ends.
FbxDie(h) ==
  /\ pc[h] = "up"
  /\ dntask' = IF devnode[h] THEN NULL ELSE dntask
  /\ devnode' = [devnode EXCEPT ![h] = FALSE]
  /\ \/ UNCHANGED held
     \/ proc["lh"] = "run" /\ held' = TRUE
  /\ pc' = [pc EXCEPT ![h] = "cleanup"]
  /\ UNCHANGED <<loaded, openCnt, proc, refcount, cur, ports, starting>>

\* FbxCleanupFS clears dn_Task, unless FbxDie did.
ClearDevNode(h) ==
  /\ pc[h] = "cleanup"
  /\ dntask' = IF devnode[h] THEN NULL ELSE dntask
  /\ devnode' = [devnode EXCEPT ![h] = FALSE]
  /\ pc' = [pc EXCEPT ![h] = "leave"]
  /\ cur' = [cur EXCEPT ![h] = "dl"]
  /\ UNCHANGED <<loaded, openCnt, helpers, ports, starting>>

\* A helper is left, with procsema, only if its port was got.
LeaveHelper(h) ==
  /\ pc[h] = "leave"
  /\ LET p == cur[h] IN
     /\ refcount' = IF p \in ports[h] THEN [refcount EXCEPT ![p] = @ - 1]
                                      ELSE refcount
     /\ ports' = [ports EXCEPT ![h] = @ \ {p}]
     /\ IF p = "dl"
        THEN cur' = [cur EXCEPT ![h] = "lh"] /\ UNCHANGED pc
        ELSE pc' = [pc EXCEPT ![h] = "close"] /\ UNCHANGED cur
  /\ UNCHANGED <<loaded, openCnt, proc, held, device>>

-----------------------------------------------------------------------------
(* The helpers *)

ReadCount(p) ==
  /\ proc[p] = "run" /\ refcount[p] = 0
  /\ p = "lh" => ~held
  /\ proc' = [proc EXCEPT ![p] = "sema"]
  /\ UNCHANGED <<loaded, openCnt, refcount, held, pc, cur, ports, device>>

\* Mutant of EndHelper: the count is not read again.
EndAnyway(p) ==
  /\ proc[p] = "sema"
  /\ proc' = [proc EXCEPT ![p] = "none"]
  /\ UNCHANGED <<loaded, openCnt, refcount, held, pc, cur, ports, device>>

\* With procsema.  The helper clears the pointer to it and ends without being
\* interrupted (Forbid).
EndHelper(p) ==
  /\ proc[p] = "sema"
  /\ proc' = [proc EXCEPT ![p] = IF refcount[p] = 0 THEN "none" ELSE "run"]
  /\ UNCHANGED <<loaded, openCnt, refcount, held, pc, cur, ports, device>>

\* A client gives back the last of what the lock handler has.
FreeHeld ==
  /\ held /\ proc["lh"] = "run"
  /\ held' = FALSE
  /\ UNCHANGED <<loaded, openCnt, proc, refcount, pc, cur, ports, device>>

-----------------------------------------------------------------------------
Init ==
  /\ loaded = FALSE /\ openCnt = 0
  /\ proc = [p \in Helper |-> "none"] /\ refcount = [p \in Helper |-> 0]
  /\ held = FALSE
  /\ pc = [h \in Handler |-> "out"] /\ cur = [h \in Handler |-> "dl"]
  /\ ports = [h \in Handler |-> {}]
  /\ dntask = NULL /\ devnode = [h \in Handler |-> FALSE] /\ starting = NULL

HandlerStep(h) ==
  \/ LibOpen(h) \/ LibClose(h)
  \/ SetupResources(h) \/ JoinHelper(h) \/ CheckHelper(h)
  \/ FbxDie(h) \/ ClearDevNode(h) \/ LeaveHelper(h)

Next ==
  \/ \E h \in Handler : HandlerStep(h)
  \/ \E p \in Helper : ReadCount(p) \/ EndHelper(p)
  \/ LibExpunge \/ FreeHeld

Spec == Init /\ [][Next]_vars

-----------------------------------------------------------------------------
(* Properties *)

Label == {"out", "setup", "join", "check", "up", "cleanup", "leave", "close"}

Types ==
  /\ loaded \in BOOLEAN /\ openCnt \in Int
  /\ proc \in [Helper -> {"none", "run", "sema"}]
  /\ refcount \in [Helper -> Int] /\ held \in BOOLEAN
  /\ pc \in [Handler -> Label] /\ cur \in [Handler -> Helper]
  /\ ports \in [Handler -> SUBSET Helper]
  /\ dntask \in Handler \cup {NULL} /\ starting \in Handler \cup {NULL}
  /\ devnode \in [Handler -> BOOLEAN]

TypeOK == Types /\ openCnt >= 0

\* The library is never unloaded under code that runs: neither that of a
\* handler that has it open nor that of a helper, which nobody opens it for
\* and which may outlive all handlers for the locks it has.
CodeIsLoaded ==
  ~loaded => /\ \A h \in Handler : pc[h] = "out"
             /\ \A p \in Helper : proc[p] = "none"

\* A handler that has the port of a helper finds the helper alive, however
\* many handlers come and go while the helper makes up its mind to end.
UsersAlive == \A h \in Handler : \A p \in ports[h] : proc[p] # "none"

\* The count of a helper is the number of the handlers that joined it.
CountIsUsers == \A p \in Helper : refcount[p] = Cardinality(Users(p))

\* A running handler is the one that its device is answered by: neither the
\* shutdown nor the cleanup of an older one takes the device from it.
DeviceAnswered == \A h \in Handler : pc[h] = "up" /\ devnode[h] => dntask = h

\* Both helpers keep the promise of FbxHelper.
DosListHelper == INSTANCE FbxHelper WITH
                   users <- Users("dl"), alive <- proc["dl"] # "none"
LockHandlerHelper == INSTANCE FbxHelper WITH
                       users <- Users("lh"), alive <- proc["lh"] # "none"
DosListPromise == DosListHelper!Spec
LockHandlerPromise == LockHandlerHelper!Spec
=============================================================================
