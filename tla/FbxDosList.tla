------------------------------ MODULE FbxDosList ------------------------------
(***************************************************************************)
(* How handlers keep their volumes in the DOS list.  A handler must not    *)
(* wait for the DOS list: the program that has locked it can be waiting    *)
(* for an answer of this handler.  So it tries for some time, and then     *)
(* leaves the command to a process that all handlers share, the helper     *)
(* dlproc.  The helper is started by the first handler and ends after the  *)
(* last one.                                                               *)
(*                                                                         *)
(* The parts of FbxSetupFS and FbxCleanupFS that hold procsema are one     *)
(* step.  A Name stands for the name and the date of a volume: AddDosEntry *)
(* refuses a second volume with both.                                      *)
(***************************************************************************)
EXTENDS Naturals, Sequences, FiniteSets

CONSTANTS
  Handler,        \* handler processes
  Volume,         \* the memory a volume node can be in
  Name,
  NULL,
  Locked,         \* a volume can have locks when its disk is removed
  CanFail,        \* the volumes for whose commands memory can lack
  HelperFirst,    \* the priority of the helper, 15, is above the handlers'
  MaxPort         \* bound on the commands that are given and not carried out

ASSUME ConstantAssumption ==
  /\ NULL \notin Volume /\ IsFiniteSet(Handler) /\ MaxPort \in Nat
  /\ Locked \in BOOLEAN /\ CanFail \subseteq Volume /\ HelperFirst \in BOOLEAN

VARIABLES
  doslist,        \* the volumes in the DOS list
  doslock,        \* who has locked the DOS list
  mem,            \* the volumes that are allocated
  volname,        \* vol->volname
  refused,        \* history: the volumes that AddDosEntry refused last
  refcount,       \* libBase->dlproc_refcount
  dlpc,           \* where the helper is; "none" when libBase->dlproc is NULL
  dlsig,          \* the helper has been signalled
  port,           \* the messages of the helper
  pc,             \* where a handler is
  cmd,            \* the command a handler gives
  empty,          \* what the handler saw when it looked at the port
  currvol,        \* fs->currvol
  volumelist,     \* fs->volumelist
  shutdown        \* fs->shutdown is going to be set

list    == <<doslist, doslock, mem, volname, refused>>
helper  == <<refcount, dlpc, dlsig, port>>
handler == <<pc, cmd, empty, currvol, volumelist, shutdown>>
vars    == <<list, helper, handler>>

Command == [op : {"ADD", "REMOVE", "REMOVE_FREE", "RENAME"},
            vol : Volume, name : Name]

NoCommand == [op |-> "NONE", vol |-> NULL, name |-> NULL]

-----------------------------------------------------------------------------
(* The DOS list *)

NameTaken(v, n) == \E w \in doslist \ {v} : volname[w] = n

\* Other programs lock the DOS list as they like, and can hold it as long as
\* the answer of a handler takes.
OtherLock ==
  /\ doslock = NULL
  /\ doslock' = "other"
  /\ UNCHANGED <<doslist, mem, volname, refused, helper, handler>>

OtherUnlock ==
  /\ doslock = "other"
  /\ doslock' = NULL
  /\ UNCHANGED <<doslist, mem, volname, refused, helper, handler>>

\* What a command returns when it is carried out on the list.
Result(c) ==
  CASE c.op = "ADD" -> ~NameTaken(c.vol, volname[c.vol])
    [] c.op = "RENAME" -> c.vol \in doslist /\ ~NameTaken(c.vol, c.name)
    [] OTHER -> c.vol \in doslist

\* A command is carried out by whoever has the list locked; frees is what it
\* frees besides.  A volume that is removed for a new name and refused under
\* it stays out of the list.
Execute(c, frees) ==
  /\ doslist' = IF c.op \in {"ADD", "RENAME"} /\ Result(c)
                THEN doslist \cup {c.vol} ELSE doslist \ {c.vol}
  /\ volname' = IF c.op = "RENAME" /\ c.vol \in doslist
                THEN [volname EXCEPT ![c.vol] = c.name] ELSE volname
  /\ refused' = IF c.op = "ADD" \/ (c.op = "RENAME" /\ c.vol \in doslist)
                THEN IF Result(c) THEN refused \ {c.vol}
                                  ELSE refused \cup {c.vol}
                ELSE refused
  /\ mem' = mem \ (frees \cup IF c.op = "REMOVE_FREE" /\ Result(c)
                              THEN {c.vol} ELSE {})

-----------------------------------------------------------------------------
(* The helper: FbxDosListProc *)

\* Wait returns.
Wake ==
  /\ dlpc = "wait" /\ dlsig
  /\ dlsig' = FALSE
  /\ dlpc' = IF port # <<>> THEN "lock" ELSE "count"
  /\ UNCHANGED <<list, refcount, port, handler>>

LockList ==
  /\ dlpc = "lock" /\ doslock = NULL
  /\ doslock' = "dlproc"
  /\ dlpc' = "drain"
  /\ UNCHANGED <<doslist, mem, volname, refused, refcount, dlsig, port, handler>>

ServeMessage ==
  /\ dlpc = "drain" /\ port # <<>>
  /\ Execute(Head(port), {})
  /\ port' = Tail(port)
  /\ UNCHANGED <<doslock, refcount, dlpc, dlsig, handler>>

\* Mutant of UnlockList: the list is unlocked after one message.
UnlockEarly ==
  /\ dlpc = "drain"
  /\ doslock' = NULL
  /\ dlpc' = "count"
  /\ UNCHANGED <<doslist, mem, volname, refused, refcount, dlsig, port, handler>>

UnlockList ==
  /\ dlpc = "drain" /\ port = <<>>
  /\ doslock' = NULL
  /\ dlpc' = "count"
  /\ UNCHANGED <<doslist, mem, volname, refused, refcount, dlsig, port, handler>>

\* The count is read without the semaphore first.
ReadCount ==
  /\ dlpc = "count"
  /\ dlpc' = IF refcount = 0 THEN "sema" ELSE "wait"
  /\ UNCHANGED <<list, refcount, dlsig, port, handler>>

\* With the semaphore the count decides.  Messages that have come since are
\* freed and not carried out.
EndOrWait ==
  /\ dlpc = "sema"
  /\ IF refcount = 0
     THEN dlpc' = "none" /\ port' = <<>>
     ELSE dlpc' = "wait" /\ UNCHANGED port
  /\ UNCHANGED <<doslist, doslock, mem, volname, refused>>
  /\ UNCHANGED <<refcount, dlsig, handler>>

FbxDosListProc ==
  Wake \/ LockList \/ ServeMessage \/ UnlockList \/ ReadCount \/ EndOrWait

\* The helper would run if it had the processor.
HelperReady ==
  \/ dlpc = "wait" /\ dlsig
  \/ dlpc = "lock" /\ doslock = NULL
  \/ dlpc \in {"drain", "count", "sema"}

HandlerRuns == HelperFirst => ~HelperReady

-----------------------------------------------------------------------------
(* Commands of a handler: FbxAsyncDosListCmd *)

Given == Len(port) + Cardinality({h \in Handler : pc[h] = "try"})

\* The handler looks at the port of the helper before it tries the list.
AsyncCmd(h, c) ==
  /\ Given < MaxPort
  /\ cmd' = [cmd EXCEPT ![h] = c]
  /\ empty' = [empty EXCEPT ![h] = port = <<>>]
  /\ pc' = [pc EXCEPT ![h] = "try"]

\* What the callers do with the result.
Finish(h, ok) ==
  /\ pc' = [pc EXCEPT ![h] = "loop"]
  /\ cmd' = [cmd EXCEPT ![h] = NoCommand]
  /\ currvol' = [currvol EXCEPT ![h] =
       CASE cmd[h].op = "ADD" -> IF ok THEN cmd[h].vol ELSE NULL
         [] cmd[h].op = "RENAME" -> currvol[h]
         [] OTHER -> NULL]
  /\ volumelist' = IF cmd[h].op = "REMOVE"
                   THEN [volumelist EXCEPT ![h] = @ \cup {cmd[h].vol}]
                   ELSE volumelist
  /\ UNCHANGED <<empty, shutdown>>

\* FbxSetupVolume frees a volume that it cannot add.
Undone(h, ok) == IF cmd[h].op = "ADD" /\ ~ok THEN {cmd[h].vol} ELSE {}

\* AttemptLockDosList has the list.
Direct(h) ==
  /\ HandlerRuns /\ pc[h] = "try"
  /\ empty[h] /\ doslock = NULL
  /\ Execute(cmd[h], Undone(h, Result(cmd[h])))
  /\ Finish(h, Result(cmd[h]))
  /\ UNCHANGED <<doslock, helper>>

\* Mutant of Queue: the handler waits for the list.
QueueBehind(h) ==
  /\ HandlerRuns /\ pc[h] = "try"
  /\ ~empty[h]
  /\ port' = Append(port, cmd[h]) /\ dlsig' = TRUE
  /\ Finish(h, TRUE)
  /\ UNCHANGED <<list, refcount, dlpc>>

\* The port was not empty, or the last of the attempts found the list locked.
Queue(h) ==
  /\ HandlerRuns /\ pc[h] = "try"
  /\ ~empty[h] \/ doslock # NULL
  /\ port' = Append(port, cmd[h]) /\ dlsig' = TRUE
  /\ Finish(h, TRUE)
  /\ UNCHANGED <<list, refcount, dlpc>>

NoMemory(h) ==
  /\ HandlerRuns /\ pc[h] = "try" /\ cmd[h].vol \in CanFail
  /\ ~empty[h] \/ doslock # NULL
  /\ mem' = mem \ Undone(h, FALSE)
  /\ Finish(h, FALSE)
  /\ UNCHANGED <<doslist, doslock, volname, refused, helper>>

-----------------------------------------------------------------------------
(* The handlers *)

\* FbxSetupFS starts the helper if need be and counts itself.
SetupFS(h) ==
  /\ HandlerRuns /\ pc[h] = "out"
  /\ dlpc' = IF dlpc = "none" THEN "wait" ELSE dlpc
  /\ dlsig' = (dlsig /\ dlpc # "none")
  /\ refcount' = refcount + 1
  /\ pc' = [pc EXCEPT ![h] = "loop"]
  /\ UNCHANGED <<list, port, cmd, empty, currvol, volumelist, shutdown>>

\* FbxSetupVolume allocates the node; its name is the disk's.
SetupVolume(h, v, n) ==
  /\ HandlerRuns /\ pc[h] = "loop" /\ ~shutdown[h]
  /\ currvol[h] = NULL /\ v \notin mem
  /\ mem' = mem \cup {v}
  /\ volname' = [volname EXCEPT ![v] = n]
  /\ refused' = refused \ {v}
  /\ AsyncCmd(h, [op |-> "ADD", vol |-> v, name |-> n])
  /\ UNCHANGED <<doslist, doslock, helper, currvol, volumelist, shutdown>>

\* FbxCleanupVolume keeps the node of a volume with locks or requests.
RemoveVolume(h) ==
  \E op \in IF Locked THEN {"REMOVE", "REMOVE_FREE"} ELSE {"REMOVE_FREE"} :
     AsyncCmd(h, [op |-> op, vol |-> currvol[h], name |-> volname[currvol[h]]])

CleanupVolume(h) ==
  /\ HandlerRuns /\ pc[h] = "loop" /\ ~shutdown[h] /\ currvol[h] # NULL
  /\ RemoveVolume(h)
  /\ UNCHANGED <<list, helper, currvol, volumelist, shutdown>>

Relabel(h, n) ==
  /\ HandlerRuns /\ pc[h] = "loop" /\ ~shutdown[h] /\ currvol[h] # NULL
  /\ AsyncCmd(h, [op |-> "RENAME", vol |-> currvol[h], name |-> n])
  /\ UNCHANGED <<list, helper, currvol, volumelist, shutdown>>

\* FbxEndLock frees a removed volume with its last lock.
EndLock(h, v) ==
  /\ HandlerRuns /\ pc[h] = "loop" /\ ~shutdown[h] /\ v \in volumelist[h]
  /\ volumelist' = [volumelist EXCEPT ![h] = @ \ {v}]
  /\ mem' = mem \ {v}
  /\ UNCHANGED <<doslist, doslock, volname, refused, helper>>
  /\ UNCHANGED <<pc, cmd, empty, currvol, shutdown>>

\* FbxDie takes the volume down first.
Die(h) ==
  /\ HandlerRuns /\ pc[h] = "loop" /\ ~shutdown[h]
  /\ shutdown' = [shutdown EXCEPT ![h] = TRUE]
  /\ IF currvol[h] # NULL THEN RemoveVolume(h) ELSE UNCHANGED <<pc, cmd, empty>>
  /\ UNCHANGED <<list, helper, currvol, volumelist>>

\* Mutant of CleanupFS: the helper is not signalled.
CleanupQuietly(h) ==
  /\ HandlerRuns /\ pc[h] = "loop" /\ shutdown[h]
  /\ mem' = mem \ volumelist[h]
  /\ volumelist' = [volumelist EXCEPT ![h] = {}]
  /\ refcount' = refcount - 1
  /\ pc' = [pc EXCEPT ![h] = "out"]
  /\ shutdown' = [shutdown EXCEPT ![h] = FALSE]
  /\ UNCHANGED <<doslist, doslock, volname, refused, dlpc, dlsig, port>>
  /\ UNCHANGED <<cmd, empty, currvol>>

\* The rest of FbxDie frees the removed volumes; FbxCleanupFS leaves the
\* helper and signals it when the count comes to zero.
CleanupFS(h) ==
  /\ HandlerRuns /\ pc[h] = "loop" /\ shutdown[h]
  /\ mem' = mem \ volumelist[h]
  /\ volumelist' = [volumelist EXCEPT ![h] = {}]
  /\ refcount' = refcount - 1
  /\ dlsig' = (dlsig \/ refcount = 1)
  /\ pc' = [pc EXCEPT ![h] = "out"]
  /\ shutdown' = [shutdown EXCEPT ![h] = FALSE]
  /\ UNCHANGED <<doslist, doslock, volname, refused, dlpc, port>>
  /\ UNCHANGED <<cmd, empty, currvol>>

-----------------------------------------------------------------------------
Init ==
  /\ doslist = {} /\ doslock = NULL /\ mem = {} /\ refused = {}
  /\ volname \in [Volume -> Name]
  /\ refcount = 0 /\ dlpc = "none" /\ dlsig = FALSE /\ port = <<>>
  /\ pc = [h \in Handler |-> "out"] /\ cmd = [h \in Handler |-> NoCommand]
  /\ empty = [h \in Handler |-> FALSE]
  /\ currvol = [h \in Handler |-> NULL]
  /\ volumelist = [h \in Handler |-> {}]
  /\ shutdown = [h \in Handler |-> FALSE]

EndCommand(h) == Direct(h) \/ Queue(h) \/ NoMemory(h)

HandlerStep(h) ==
  \/ SetupFS(h) \/ CleanupVolume(h) \/ Die(h) \/ CleanupFS(h) \/ EndCommand(h)
  \/ \E v \in Volume, n \in Name : SetupVolume(h, v, n)
  \/ \E n \in Name : Relabel(h, n)
  \/ \E v \in Volume : EndLock(h, v)

Next ==
  FbxDosListProc \/ OtherLock \/ OtherUnlock \/ \E h \in Handler : HandlerStep(h)

\* A handler gets the processor again and again while the helper sleeps.
Fairness ==
  WF_vars(FbxDosListProc) /\ \A h \in Handler : SF_vars(EndCommand(h))

Spec == Init /\ [][Next]_vars /\ Fairness

\* A program that has the list locked can wait for the answer of a handler that
\* is in the middle of a command.  It unlocks the list once it has the answer,
\* and does not take it again and again just when the helper waits for it.
OtherAnswered == OtherUnlock /\ \A h \in Handler : pc[h] # "try"

PoliteSpec == Spec /\ SF_vars(OtherAnswered) /\ SF_vars(LockList)

-----------------------------------------------------------------------------
(* Properties *)

TypeOK ==
  /\ doslist \subseteq Volume /\ mem \subseteq Volume /\ refused \subseteq Volume
  /\ doslock \in {NULL, "other", "dlproc"}
  /\ volname \in [Volume -> Name]
  /\ refcount = Cardinality({h \in Handler : pc[h] # "out"})
  /\ dlpc \in {"none", "wait", "lock", "drain", "count", "sema"}
  /\ dlsig \in BOOLEAN /\ port \in Seq(Command)
  /\ pc \in [Handler -> {"out", "loop", "try"}]
  /\ cmd \in [Handler -> Command \cup {NoCommand}]
  /\ empty \in [Handler -> BOOLEAN]
  /\ currvol \in [Handler -> Volume \cup {NULL}]
  /\ volumelist \in [Handler -> SUBSET Volume]
  /\ shutdown \in [Handler -> BOOLEAN]

\* A command for the volume is given and not yet carried out.
Pending(v) ==
  \/ \E i \in DOMAIN port : port[i].vol = v
  \/ \E h \in Handler : cmd[h].vol = v

\* Commands are carried out in the order the handler gave them, whether by
\* itself or by the helper: when none is on its way, the volume a handler
\* shows is in the DOS list under its name, or its name was refused.
ShownIsListed ==
  \A h \in Handler : currvol[h] # NULL /\ ~Pending(currvol[h])
    => currvol[h] \in doslist \cup refused

\* And no other volume is: what a handler no longer shows leaves the list,
\* unless there was no memory for the command.  The last handler can leave
\* while commands wait for the helper, which frees what it has not seen; with
\* its priority above the handlers' it sees all.
ListedIsShown ==
  \A v \in doslist :
    Pending(v) \/ v \in CanFail \/ \E h \in Handler : currvol[h] = v

\* So the DOS list follows the handlers.
ListFollows == ShownIsListed /\ ListedIsShown

\* A handler never waits for the DOS list: it gets on, even if the program that
\* has the list locked waits for its answer.
CommandsEnd == \A h \in Handler : pc[h] = "try" ~> pc[h] # "try"

\* The helper sees to the commands that are left to it, and it ends when all
\* handlers stay away.
CommandsServed ==
  /\ port # <<>> ~> port = <<>> \/ doslock = "dlproc"
  /\ refcount = 0 ~> dlpc = "none" \/ refcount # 0
=============================================================================
