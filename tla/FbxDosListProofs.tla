--------------------------- MODULE FbxDosListProofs ---------------------------
(***************************************************************************)
(* Proofs about FbxDosList, for any number of handlers and volumes: the    *)
(* DOS list follows the handlers, although they leave commands to the      *)
(* helper and go on as if these were carried out.                          *)
(***************************************************************************)
EXTENDS FbxDosList, FiniteSetTheorems, SequenceTheorems, TLAPS

-----------------------------------------------------------------------------
(* The inductive invariant *)

Removes == {"REMOVE", "REMOVE_FREE"}

\* A handler that gives a command adds the volume it does not show yet, or
\* gives it for the volume that it shows.
HandlerInv(h) ==
  /\ pc[h] = "try" <=> cmd[h].op # "NONE"
  /\ cmd[h].op = "NONE" => cmd[h].vol = NULL
  /\ cmd[h].op = "ADD" => currvol[h] = NULL
  /\ cmd[h].op \in Removes \cup {"RENAME"} => currvol[h] = cmd[h].vol
  /\ currvol[h] \notin volumelist[h] /\ cmd[h].vol \notin volumelist[h]

\* The volume's memory is in use by the handler.
Holds(h, v) == cmd[h].vol = v \/ currvol[h] = v \/ v \in volumelist[h]

HoldInv(v) ==
  \A h \in Handler : Holds(h, v) =>
    v \in mem /\ \A g \in Handler : Holds(g, v) => g = h

\* A volume that the helper is going to free is in use by no handler, and freed
\* once.
FreeInv ==
  \A v \in Volume, i \in DOMAIN port : port[i].op = "REMOVE_FREE" /\ port[i].vol = v =>
    /\ v \in mem /\ \A h \in Handler : ~Holds(h, v)
    /\ \A j \in DOMAIN port : port[j].op = "REMOVE_FREE" /\ port[j].vol = v => i = j

\* The helper knows of the commands that are left to it.
HelperInv ==
  /\ port # <<>> => (dlpc = "wait" /\ dlsig) \/ dlpc \in {"lock", "drain"}
  /\ dlpc = "none" => \A h \in Handler : pc[h] = "out"

\* All that is left to the helper for v is a new name.
OnlyRenames(v) == \A j \in DOMAIN port : port[j].vol = v => port[j].op = "RENAME"

\* The last command for v but for new names is one of ops.
LastIn(v, ops) ==
  \E i \in DOMAIN port :
    /\ port[i].vol = v /\ port[i].op \in ops
    /\ \A j \in DOMAIN port : j > i /\ port[j].vol = v => port[j].op = "RENAME"

\* Where v will be when the helper has carried out all commands.
InAfter(v)  == LastIn(v, {"ADD"}) \/ (OnlyRenames(v) /\ v \in doslist \cup refused)
OutAfter(v) == LastIn(v, Removes) \/ (OnlyRenames(v) /\ v \notin doslist)

FollowInv(v) ==
  /\ (\E h \in Handler : currvol[h] = v) => InAfter(v)
  /\ v \notin CanFail /\ (\A h \in Handler : currvol[h] # v) => OutAfter(v)

IInv ==
  /\ TypeOK /\ HelperInv /\ FreeInv
  /\ \A h \in Handler : HandlerInv(h)
  /\ \A v \in Volume : HoldInv(v) /\ FollowInv(v)

-----------------------------------------------------------------------------
(* The commands that are left to the helper *)

LEMMA PortType ==
  ASSUME TypeOK
  PROVE  /\ port \in Seq(Command) /\ Len(port) \in Nat /\ DOMAIN port = 1..Len(port)
         /\ \A i \in DOMAIN port : port[i] \in Command
<1>1. port \in Seq(Command)
  BY DEF TypeOK
<1>2. Len(port) \in Nat /\ DOMAIN port = 1..Len(port)
  BY <1>1, LenProperties
<1> QED
  BY <1>1, <1>2, ElementOfSeq

LEMMA AppendPort ==
  ASSUME TypeOK, NEW c \in Command, NEW t, t = Append(port, c)
  PROVE  /\ t \in Seq(Command) /\ Len(port) \in Nat
         /\ DOMAIN port = 1..Len(port) /\ DOMAIN t = 1..Len(port) + 1
         /\ t[Len(port) + 1] = c /\ \A i \in 1..Len(port) : t[i] = port[i]
<1>1. /\ t \in Seq(Command) /\ Len(t) = Len(port) + 1 /\ t[Len(port) + 1] = c
      /\ \A i \in 1..Len(port) : t[i] = port[i]
  BY PortType, AppendProperties
<1>2. DOMAIN t = 1..Len(t)
  BY <1>1, LenProperties
<1> QED
  BY <1>1, <1>2, PortType

LEMMA TailPort ==
  ASSUME TypeOK, port # <<>>, NEW t, t = Tail(port)
  PROVE  /\ t \in Seq(Command) /\ Len(port) \in Nat /\ 1 \in DOMAIN port
         /\ DOMAIN port = 1..Len(port) /\ DOMAIN t = 1..Len(port) - 1
         /\ Head(port) = port[1] /\ Head(port) \in Command
         /\ \A i \in 1..Len(port) - 1 : t[i] = port[i + 1]
<1>1. port \in Seq(Command) /\ Len(port) \in Nat /\ DOMAIN port = 1..Len(port)
  BY PortType
<1>2. Len(port) # 0
  BY <1>1, EmptySeq
<1>3. /\ t \in Seq(Command) /\ Len(t) = Len(port) - 1
      /\ \A i \in 1..Len(t) : t[i] = port[i + 1]
      /\ Head(port) = port[1]
  BY <1>1, HeadTailProperties
<1>4. DOMAIN t = 1..Len(t) /\ 1 \in DOMAIN port
  BY <1>1, <1>2, <1>3, LenProperties
<1> QED
  BY <1>1, <1>3, <1>4, PortType

\* A handler that runs and finds the list unlocked has all commands behind it.
LEMMA PortIdle ==
  ASSUME HelperFirst, HelperInv, HandlerRuns, doslock = NULL
  PROVE  port = <<>>
  BY DEF HelperInv, HandlerRuns, HelperReady

\* A command changes nothing for other volumes.
LEMMA Executed ==
  ASSUME TypeOK, NEW c \in Command, NEW frees, Execute(c, frees)
  PROVE  /\ doslist' \subseteq Volume /\ refused' \subseteq Volume /\ mem' \subseteq mem
         /\ volname' \in [Volume -> Name]
         /\ \A v : v # c.vol => /\ v \in doslist' <=> v \in doslist
                                /\ v \in refused' <=> v \in refused
                                /\ v \notin frees => (v \in mem' <=> v \in mem)
         /\ c.op = "ADD" => c.vol \in doslist' \cup refused'
         /\ c.op = "RENAME" => /\ c.vol \in doslist \cup refused => c.vol \in doslist' \cup refused'
                               /\ c.vol \notin doslist => c.vol \notin doslist'
         /\ c.op \in Removes => c.vol \notin doslist'
         /\ c.op # "REMOVE_FREE" => mem' = mem \ frees
<1>1. /\ c.vol \in Volume /\ c.name \in Name
      /\ c.op \in {"ADD", "REMOVE", "REMOVE_FREE", "RENAME"}
  BY DEF Command
<1>2. doslist \subseteq Volume /\ refused \subseteq Volume /\ volname \in [Volume -> Name]
  BY DEF TypeOK
<1>3. volname' \in [Volume -> Name]
  BY <1>1, <1>2 DEF Execute
<1>4. c.op = "RENAME" /\ c.vol \notin doslist => ~Result(c)
  BY DEF Result
<1>5. /\ doslist' \subseteq Volume /\ refused' \subseteq Volume /\ mem' \subseteq mem
      /\ \A v : v # c.vol => /\ v \in doslist' <=> v \in doslist
                             /\ v \in refused' <=> v \in refused
                             /\ v \notin frees => (v \in mem' <=> v \in mem)
  BY <1>1, <1>2 DEF Execute
<1>6. c.op = "ADD" => c.vol \in doslist' \cup refused'
  BY DEF Execute
<1>7. c.op = "RENAME" => /\ c.vol \in doslist \cup refused => c.vol \in doslist' \cup refused'
                         /\ c.vol \notin doslist => c.vol \notin doslist'
  BY <1>4 DEF Execute
<1>8. c.op \in Removes => c.vol \notin doslist'
  BY DEF Execute, Removes
<1>9. c.op # "REMOVE_FREE" => mem' = mem \ frees
  BY DEF Execute
<1> QED
  BY <1>3, <1>5, <1>6, <1>7, <1>8, <1>9

-----------------------------------------------------------------------------
(* Types *)

\* The count changes only when a handler comes in or goes out.
LEMMA CountKept ==
  ASSUME TypeOK, pc' \in [Handler -> {"out", "loop", "try"}], refcount' = refcount,
         \A h \in Handler : pc'[h] = "out" <=> pc[h] = "out"
  PROVE  refcount' = Cardinality({h \in Handler : pc'[h] # "out"})
<1>1. {h \in Handler : pc'[h] # "out"} = {h \in Handler : pc[h] # "out"}
  OBVIOUS
<1> QED
  BY <1>1 DEF TypeOK

LEMMA CountIn ==
  ASSUME TypeOK, NEW h \in Handler, pc[h] = "out", pc' = [pc EXCEPT ![h] = "loop"],
         refcount' = refcount + 1
  PROVE  refcount' = Cardinality({g \in Handler : pc'[g] # "out"})
<1> DEFINE in == {g \in Handler : pc[g] # "out"}
<1>1. {g \in Handler : pc'[g] # "out"} = in \cup {h} /\ h \notin in
  BY DEF TypeOK
<1>2. IsFiniteSet(in)
  BY ConstantAssumption, FS_Subset DEF ConstantAssumption
<1>3. refcount = Cardinality(in)
  BY DEF TypeOK
<1> HIDE DEF in
<1>4. Cardinality(in \cup {h}) = Cardinality(in) + 1
  BY <1>1, <1>2, FS_AddElement
<1> QED
  BY <1>1, <1>3, <1>4

LEMMA CountOut ==
  ASSUME TypeOK, NEW h \in Handler, pc[h] # "out", pc' = [pc EXCEPT ![h] = "out"],
         refcount' = refcount - 1
  PROVE  refcount' = Cardinality({g \in Handler : pc'[g] # "out"})
<1> DEFINE in == {g \in Handler : pc[g] # "out"}
<1>1. {g \in Handler : pc'[g] # "out"} = in \ {h} /\ h \in in
  BY DEF TypeOK
<1>2. IsFiniteSet(in)
  BY ConstantAssumption, FS_Subset DEF ConstantAssumption
<1>3. refcount = Cardinality(in)
  BY DEF TypeOK
<1> HIDE DEF in
<1>4. Cardinality(in \ {h}) = Cardinality(in) - 1
  BY <1>1, <1>2, FS_RemoveElement
<1> QED
  BY <1>1, <1>3, <1>4

\* When nobody is counted nobody is in.
LEMMA NobodyIn ==
  ASSUME TypeOK, refcount = 0
  PROVE  \A h \in Handler : pc[h] = "out"
<1> DEFINE in == {g \in Handler : pc[g] # "out"}
<1>1. IsFiniteSet(in)
  BY ConstantAssumption, FS_Subset DEF ConstantAssumption
<1>2. in = {}
  BY <1>1, FS_EmptySet DEF TypeOK
<1> QED
  BY <1>2

LEMMA AsyncType ==
  ASSUME TypeOK, NEW h \in Handler, NEW c \in Command, AsyncCmd(h, c), pc[h] = "loop"
  PROVE  /\ pc' \in [Handler -> {"out", "loop", "try"}]
         /\ cmd' \in [Handler -> Command \cup {NoCommand}]
         /\ empty' \in [Handler -> BOOLEAN]
         /\ \A g \in Handler : pc'[g] = "out" <=> pc[g] = "out"
<1>1. (port = <<>>) \in BOOLEAN
  OBVIOUS
<1>2. empty \in [Handler -> BOOLEAN] /\ empty' = [empty EXCEPT ![h] = port = <<>>]
  BY DEF TypeOK, AsyncCmd
<1>3. empty' \in [Handler -> BOOLEAN]
  BY <1>1, <1>2, Zenon
<1> QED
  BY <1>3 DEF TypeOK, AsyncCmd

LEMMA FinishType ==
  ASSUME TypeOK, NEW h \in Handler, pc[h] = "try", cmd[h] \in Command,
         NEW ok, Finish(h, ok)
  PROVE  /\ pc' \in [Handler -> {"out", "loop", "try"}]
         /\ cmd' \in [Handler -> Command \cup {NoCommand}]
         /\ currvol' \in [Handler -> Volume \cup {NULL}]
         /\ volumelist' \in [Handler -> SUBSET Volume]
         /\ UNCHANGED <<empty, shutdown>>
         /\ \A g \in Handler : pc'[g] = "out" <=> pc[g] = "out"
<1> DEFINE shown == CASE cmd[h].op = "ADD" -> IF ok THEN cmd[h].vol ELSE NULL
                      [] cmd[h].op = "RENAME" -> currvol[h]
                      [] OTHER -> NULL
<1>1. cmd[h].vol \in Volume
  BY DEF Command
<1>2. currvol \in [Handler -> Volume \cup {NULL}] /\ volumelist \in [Handler -> SUBSET Volume]
  BY DEF TypeOK
<1>3. shown \in Volume \cup {NULL}
  BY <1>1, <1>2
<1>4. currvol' = [currvol EXCEPT ![h] = shown]
  BY DEF Finish
<1> HIDE DEF shown
<1>5. currvol' \in [Handler -> Volume \cup {NULL}]
  BY <1>2, <1>3, <1>4
<1>6. volumelist' \in [Handler -> SUBSET Volume]
  BY <1>1, <1>2 DEF Finish
<1> QED
  BY <1>5, <1>6 DEF TypeOK, Finish

\* The command of a handler that is in the middle of one.
LEMMA CommandGiven ==
  ASSUME TypeOK, NEW h \in Handler, HandlerInv(h), pc[h] = "try"
  PROVE  cmd[h] \in Command
  BY DEF TypeOK, HandlerInv, NoCommand

LEMMA RemoveVolumeGiven ==
  ASSUME TypeOK, NEW h \in Handler, currvol[h] # NULL, RemoveVolume(h)
  PROVE  \E c \in Command : /\ c.op \in Removes /\ c.vol = currvol[h]
                            /\ AsyncCmd(h, c)
<1>1. currvol[h] \in Volume /\ volname[currvol[h]] \in Name
  BY DEF TypeOK
<1>2. PICK op \in Removes :
        AsyncCmd(h, [op |-> op, vol |-> currvol[h], name |-> volname[currvol[h]]])
  BY DEF RemoveVolume, Removes
<1>3. [op |-> op, vol |-> currvol[h], name |-> volname[currvol[h]]] \in Command
  BY <1>1 DEF Command, Removes
<1> QED
  BY <1>2, <1>3

\* Every step of a handler that gives a command.
Gives(h, c) ==
  /\ pc[h] = "loop" /\ AsyncCmd(h, c)
  /\ currvol[h] = IF c.op = "ADD" THEN NULL ELSE c.vol
  /\ UNCHANGED <<doslist, doslock, helper, currvol, volumelist>>

LEMMA StepsThatGive ==
  ASSUME TypeOK, NEW h \in Handler, HandlerStep(h)
  PROVE  \/ SetupFS(h) \/ CleanupFS(h) \/ EndCommand(h) \/ \E v \in Volume : EndLock(h, v)
         \/ /\ Die(h) /\ UNCHANGED <<pc, cmd, empty>>
         \/ /\ \E c \in Command : c.op # "ADD" /\ Gives(h, c)
            /\ UNCHANGED list /\ shutdown' \in [Handler -> BOOLEAN]
         \/ \E c \in Command : /\ c.op = "ADD" /\ Gives(h, c) /\ c.vol \notin mem
                               /\ mem' = mem \cup {c.vol} /\ refused' = refused \ {c.vol}
                               /\ volname' \in [Volume -> Name] /\ UNCHANGED shutdown
<1>1. CASE CleanupVolume(h)
  <2>1. \E c \in Command : c.op \in Removes /\ c.vol = currvol[h] /\ AsyncCmd(h, c)
    BY <1>1, RemoveVolumeGiven DEF CleanupVolume
  <2>2. /\ UNCHANGED <<list, helper, currvol, volumelist, shutdown>> /\ pc[h] = "loop"
        /\ shutdown \in [Handler -> BOOLEAN]
    BY <1>1 DEF CleanupVolume, TypeOK
  <2> QED
    BY <2>1, <2>2 DEF Gives, Removes, list
<1>2. CASE Die(h)
  <2>1. CASE currvol[h] # NULL
    <3>1. \E c \in Command : c.op \in Removes /\ c.vol = currvol[h] /\ AsyncCmd(h, c)
      BY <1>2, <2>1, RemoveVolumeGiven DEF Die
    <3>2. /\ UNCHANGED <<list, helper, currvol, volumelist>> /\ pc[h] = "loop"
          /\ shutdown' \in [Handler -> BOOLEAN]
      BY <1>2 DEF Die, TypeOK
    <3> QED
      BY <3>1, <3>2 DEF Gives, Removes, list
  <2>2. CASE currvol[h] = NULL
    BY <1>2, <2>2 DEF Die
  <2> QED
    BY <2>1, <2>2
<1>3. CASE \E n \in Name : Relabel(h, n)
  <2>1. PICK n \in Name : Relabel(h, n)
    BY <1>3
  <2> DEFINE c == [op |-> "RENAME", vol |-> currvol[h], name |-> n]
  <2>2. c \in Command
    BY <2>1 DEF Relabel, TypeOK, Command
  <2>3. /\ AsyncCmd(h, c) /\ pc[h] = "loop" /\ shutdown \in [Handler -> BOOLEAN]
        /\ UNCHANGED <<list, helper, currvol, volumelist, shutdown>>
    BY <2>1 DEF Relabel, TypeOK
  <2> QED
    BY <2>2, <2>3 DEF Gives, list
<1>4. CASE \E v \in Volume, n \in Name : SetupVolume(h, v, n)
  <2>1. PICK v \in Volume, n \in Name : SetupVolume(h, v, n)
    BY <1>4
  <2> DEFINE c == [op |-> "ADD", vol |-> v, name |-> n]
  <2>2. c \in Command
    BY DEF Command
  <2>3. volname' \in [Volume -> Name]
    BY <2>1 DEF SetupVolume, TypeOK
  <2>4. /\ AsyncCmd(h, c) /\ pc[h] = "loop" /\ currvol[h] = NULL /\ v \notin mem
        /\ mem' = mem \cup {v} /\ refused' = refused \ {v} /\ UNCHANGED shutdown
        /\ UNCHANGED <<doslist, doslock, helper, currvol, volumelist>>
    BY <2>1 DEF SetupVolume
  <2>5. c.op = "ADD" /\ c.vol = v /\ Gives(h, c)
    BY <2>4 DEF Gives
  <2> HIDE DEF c
  <2> QED
    BY <2>2, <2>3, <2>4, <2>5
<1> QED
  BY <1>1, <1>2, <1>3, <1>4 DEF HandlerStep

LEMMA TypeStep ==
  ASSUME TypeOK, \A h \in Handler : HandlerInv(h), [Next]_vars
  PROVE  TypeOK'
<1>1. CASE OtherLock \/ OtherUnlock \/ UNCHANGED vars
  BY <1>1 DEF TypeOK, OtherLock, OtherUnlock, vars, list, helper, handler
<1>2. CASE Wake \/ LockList \/ UnlockList \/ ReadCount
  BY <1>2 DEF TypeOK, Wake, LockList, UnlockList, ReadCount, list, helper, handler
<1>3. CASE EndOrWait
  BY <1>3, EmptySeq DEF TypeOK, EndOrWait, list, helper, handler
<1>4. CASE ServeMessage
  <2>1. /\ dlpc = "drain" /\ port # <<>> /\ Execute(Head(port), {}) /\ port' = Tail(port)
        /\ UNCHANGED <<doslock, refcount, dlpc, dlsig, handler>>
    BY <1>4 DEF ServeMessage
  <2>2. Head(port) \in Command /\ port' \in Seq(Command)
    BY <2>1, TailPort
  <2>3. /\ doslist' \subseteq Volume /\ refused' \subseteq Volume /\ mem' \subseteq mem
        /\ volname' \in [Volume -> Name]
    BY <2>1, <2>2, Executed
  <2> QED
    BY <2>1, <2>2, <2>3 DEF TypeOK, handler
<1>5. ASSUME NEW h \in Handler, HandlerStep(h)
      PROVE  TypeOK'
  <2>1. CASE SetupFS(h)
    <3>1. refcount' = Cardinality({g \in Handler : pc'[g] # "out"})
      BY <2>1, CountIn DEF SetupFS
    <3>2. dlsig' \in BOOLEAN
      BY <2>1, Zenon DEF SetupFS
    <3> QED
      BY <2>1, <3>1, <3>2 DEF SetupFS, TypeOK, list
  <2>2. CASE CleanupFS(h)
    <3>1. refcount' = Cardinality({g \in Handler : pc'[g] # "out"})
      BY <2>2, CountOut DEF CleanupFS
    <3>2. dlsig' \in BOOLEAN
      BY <2>2, Zenon DEF CleanupFS
    <3>3. shutdown' \in [Handler -> BOOLEAN] /\ volumelist' \in [Handler -> SUBSET Volume]
      BY <2>2 DEF CleanupFS, TypeOK
    <3>4. /\ pc' \in [Handler -> {"out", "loop", "try"}] /\ mem' \subseteq Volume
      BY <2>2 DEF CleanupFS, TypeOK
    <3> QED
      BY <2>2, <3>1, <3>2, <3>3, <3>4 DEF CleanupFS, TypeOK
  <2>3. CASE EndCommand(h)
    <3>1. cmd[h] \in Command /\ pc[h] = "try"
      BY <2>3, CommandGiven DEF EndCommand, Direct, Queue, NoMemory
    <3>2. \E ok : Finish(h, ok)
      BY <2>3 DEF EndCommand, Direct, Queue, NoMemory
    <3>3. /\ pc' \in [Handler -> {"out", "loop", "try"}]
          /\ cmd' \in [Handler -> Command \cup {NoCommand}]
          /\ currvol' \in [Handler -> Volume \cup {NULL}]
          /\ volumelist' \in [Handler -> SUBSET Volume]
          /\ UNCHANGED <<empty, shutdown>>
          /\ \A g \in Handler : pc'[g] = "out" <=> pc[g] = "out"
      BY <3>1, <3>2, FinishType
    <3>4. UNCHANGED <<refcount, dlpc, doslock>>
      BY <2>3 DEF EndCommand, Direct, Queue, NoMemory, helper, list
    <3>5. refcount' = Cardinality({g \in Handler : pc'[g] # "out"})
      BY <3>3, <3>4, CountKept
    <3>6. port' \in Seq(Command) /\ dlsig' \in BOOLEAN
      <4>1. CASE Queue(h)
        BY <3>1, <4>1, AppendPort DEF Queue
      <4>2. CASE Direct(h) \/ NoMemory(h)
        BY <4>2 DEF Direct, NoMemory, helper, TypeOK
      <4> QED
        BY <2>3, <4>1, <4>2 DEF EndCommand
    <3>7. /\ doslist' \subseteq Volume /\ refused' \subseteq Volume /\ mem' \subseteq mem
          /\ volname' \in [Volume -> Name]
      <4>1. CASE Direct(h)
        BY <3>1, <4>1, Executed DEF Direct
      <4>2. CASE Queue(h) \/ NoMemory(h)
        BY <4>2 DEF Queue, NoMemory, list, TypeOK
      <4> QED
        BY <2>3, <4>1, <4>2 DEF EndCommand
    <3> QED
      BY <3>3, <3>4, <3>5, <3>6, <3>7 DEF TypeOK
  <2>4. CASE \E v \in Volume : EndLock(h, v)
    <3>1. PICK v \in Volume : EndLock(h, v)
      BY <2>4
    <3>2. volumelist' \in [Handler -> SUBSET Volume] /\ mem' \subseteq Volume
      BY <3>1 DEF EndLock, TypeOK
    <3> QED
      BY <3>1, <3>2 DEF EndLock, TypeOK, helper
  <2>5. CASE Die(h) /\ UNCHANGED <<pc, cmd, empty>>
    BY <2>5 DEF Die, TypeOK, list, helper
  <2>6. ASSUME NEW c \in Command, Gives(h, c), refused' \subseteq Volume, mem' \subseteq Volume,
               volname' \in [Volume -> Name], shutdown' \in [Handler -> BOOLEAN]
        PROVE  TypeOK'
    <3>1. /\ pc' \in [Handler -> {"out", "loop", "try"}]
          /\ cmd' \in [Handler -> Command \cup {NoCommand}]
          /\ empty' \in [Handler -> BOOLEAN]
          /\ \A g \in Handler : pc'[g] = "out" <=> pc[g] = "out"
      BY <2>6, AsyncType DEF Gives
    <3>2. UNCHANGED <<doslist, doslock, currvol, volumelist, refcount, dlpc, dlsig, port>>
      BY <2>6 DEF Gives, helper
    <3>3. refcount' = Cardinality({g \in Handler : pc'[g] # "out"})
      BY <3>1, <3>2, CountKept
    <3> QED
      BY <2>6, <3>1, <3>2, <3>3 DEF TypeOK
  <2>7. CASE /\ \E c \in Command : c.op # "ADD" /\ Gives(h, c)
             /\ UNCHANGED list /\ shutdown' \in [Handler -> BOOLEAN]
    BY <2>6, <2>7 DEF list, TypeOK
  <2>8. CASE \E c \in Command : /\ c.op = "ADD" /\ Gives(h, c) /\ c.vol \notin mem
                                /\ mem' = mem \cup {c.vol} /\ refused' = refused \ {c.vol}
                                /\ volname' \in [Volume -> Name] /\ UNCHANGED shutdown
    <3>1. \A c \in Command : c.vol \in Volume
      BY DEF Command
    <3> QED
      BY <2>6, <2>8, <3>1 DEF TypeOK
  <2> QED
    BY <1>5, <2>1, <2>2, <2>3, <2>4, <2>5, <2>7, <2>8, StepsThatGive
<1> QED
  BY <1>1, <1>2, <1>3, <1>4, <1>5 DEF Next, FbxDosListProc

-----------------------------------------------------------------------------
(* Who uses a volume *)

\* A step of a handler concerns that handler.
LEMMA OthersKept ==
  ASSUME TypeOK, NEW h \in Handler, HandlerStep(h), NEW g \in Handler, g # h
  PROVE  pc'[g] = pc[g] /\ cmd'[g] = cmd[g] /\ currvol'[g] = currvol[g]
         /\ volumelist'[g] = volumelist[g]
<1> USE DEF TypeOK
<1>1. CASE SetupFS(h) \/ CleanupFS(h)
  BY <1>1 DEF SetupFS, CleanupFS
<1>2. CASE EndCommand(h)
  BY <1>2 DEF EndCommand, Direct, Queue, NoMemory, Finish
<1>3. CASE \E v \in Volume : EndLock(h, v)
  BY <1>3 DEF EndLock
<1>4. CASE Die(h) /\ UNCHANGED <<pc, cmd, empty>>
  BY <1>4 DEF Die
<1>5. ASSUME NEW c \in Command, Gives(h, c)
      PROVE  pc'[g] = pc[g] /\ cmd'[g] = cmd[g] /\ currvol'[g] = currvol[g]
             /\ volumelist'[g] = volumelist[g]
  BY <1>5 DEF Gives, AsyncCmd
<1> QED
  BY <1>1, <1>2, <1>3, <1>4, <1>5, StepsThatGive

\* What a handler shows and has when its command has ended.
LEMMA Finished ==
  ASSUME TypeOK, NEW h \in Handler, HandlerInv(h), pc[h] = "try", NEW ok, Finish(h, ok)
  PROVE  /\ pc'[h] = "loop" /\ cmd'[h] = NoCommand
         /\ currvol'[h] = IF cmd[h].op = "RENAME" \/ (cmd[h].op = "ADD" /\ ok)
                          THEN cmd[h].vol ELSE NULL
         /\ volumelist'[h] = IF cmd[h].op = "REMOVE"
                             THEN volumelist[h] \cup {cmd[h].vol} ELSE volumelist[h]
<1>1. cmd[h] \in Command
  BY CommandGiven
<1>2. cmd[h].op = "RENAME" => currvol[h] = cmd[h].vol
  BY DEF HandlerInv
<1>3. pc'[h] = "loop" /\ cmd'[h] = NoCommand
  BY DEF Finish, TypeOK
<1>4. currvol'[h] = CASE cmd[h].op = "ADD" -> IF ok THEN cmd[h].vol ELSE NULL
                      [] cmd[h].op = "RENAME" -> currvol[h]
                      [] OTHER -> NULL
  BY DEF Finish, TypeOK
<1>5. currvol'[h] = IF cmd[h].op = "RENAME" \/ (cmd[h].op = "ADD" /\ ok)
                    THEN cmd[h].vol ELSE NULL
  BY <1>2, <1>4
<1>6. volumelist'[h] = IF cmd[h].op = "REMOVE"
                       THEN volumelist[h] \cup {cmd[h].vol} ELSE volumelist[h]
  BY DEF Finish, TypeOK
<1> QED
  BY <1>3, <1>5, <1>6

LEMMA HandlerStepKeeps ==
  ASSUME TypeOK, NEW h \in Handler, HandlerInv(h), \A v \in Volume : HoldInv(v), HandlerStep(h)
  PROVE  HandlerInv(h)'
<1>0. /\ pc \in [Handler -> {"out", "loop", "try"}] /\ cmd[h] \in Command \cup {NoCommand}
      /\ currvol[h] \in Volume \cup {NULL} /\ volumelist[h] \subseteq Volume
      /\ volumelist \in [Handler -> SUBSET Volume]
      /\ NULL \notin Volume
  BY ConstantAssumption DEF TypeOK, ConstantAssumption
<1>1. CASE SetupFS(h)
  <2>1. pc[h] = "out" /\ pc'[h] = "loop" /\ UNCHANGED <<cmd, currvol, volumelist>>
    BY <1>0, <1>1 DEF SetupFS
  <2> QED
    BY <2>1 DEF HandlerInv
<1>2. CASE CleanupFS(h)
  <2>1. pc[h] = "loop" /\ pc'[h] = "out" /\ UNCHANGED <<cmd, currvol>> /\ volumelist'[h] = {}
    BY <1>0, <1>2 DEF CleanupFS
  <2> QED
    BY <2>1 DEF HandlerInv
<1>3. CASE EndCommand(h)
  <2>1. pc[h] = "try" /\ \E ok : Finish(h, ok)
    BY <1>3 DEF EndCommand, Direct, Queue, NoMemory
  <2>2. /\ pc'[h] = "loop" /\ cmd'[h] = NoCommand
        /\ (currvol'[h] = cmd[h].vol /\ cmd[h].op # "REMOVE") \/ currvol'[h] = NULL
        /\ volumelist'[h] = IF cmd[h].op = "REMOVE"
                            THEN volumelist[h] \cup {cmd[h].vol} ELSE volumelist[h]
    BY <2>1, Finished
  <2>3. cmd[h].vol \in Volume /\ cmd[h].vol \notin volumelist[h]
    BY <2>1, CommandGiven DEF HandlerInv, Command
  <2> QED
    BY <1>0, <2>2, <2>3 DEF HandlerInv, NoCommand, Removes
<1>4. CASE \E v \in Volume : EndLock(h, v)
  <2>1. UNCHANGED <<pc, cmd, currvol>> /\ volumelist'[h] \subseteq volumelist[h]
    BY <1>0, <1>4 DEF EndLock
  <2> QED
    BY <2>1 DEF HandlerInv
<1>5. CASE Die(h) /\ UNCHANGED <<pc, cmd, empty>>
  BY <1>5 DEF Die, HandlerInv
<1>6. ASSUME NEW c \in Command, Gives(h, c), c.op = "ADD" => c.vol \notin mem
      PROVE  HandlerInv(h)'
  <2>1. /\ pc'[h] = "try" /\ cmd'[h] = c /\ UNCHANGED <<currvol, volumelist>>
        /\ currvol[h] = IF c.op = "ADD" THEN NULL ELSE c.vol
    BY <1>0, <1>6 DEF Gives, AsyncCmd, TypeOK
  <2>2. c.op \in {"ADD", "REMOVE", "REMOVE_FREE", "RENAME"} /\ c.vol \in Volume
    BY DEF Command
  <2>3. c.vol \notin volumelist[h] /\ currvol[h] \notin volumelist[h]
    BY <1>6, <2>1, <2>2 DEF HandlerInv, HoldInv, Holds
  <2> QED
    BY <2>1, <2>2, <2>3 DEF HandlerInv, Removes
<1> QED
  BY <1>1, <1>2, <1>3, <1>4, <1>5, <1>6, StepsThatGive

\* A handler begins to use only what nobody uses, and frees only what it alone
\* has used.
Uses(h) ==
  \A v \in Volume :
    /\ Holds(h, v)' => v \in mem' /\ (Holds(h, v) \/ v \notin mem)
    /\ v \in mem /\ v \notin mem' => Holds(h, v) /\ ~Holds(h, v)'

LEMMA HandlerUses ==
  ASSUME TypeOK, NEW h \in Handler, HandlerInv(h), \A v \in Volume : HoldInv(v), HandlerStep(h)
  PROVE  Uses(h)
<1>0. /\ cmd[h] \in Command \cup {NoCommand} /\ volumelist \in [Handler -> SUBSET Volume]
      /\ currvol[h] \in Volume \cup {NULL} /\ NULL \notin Volume
      /\ \A v \in Volume : Holds(h, v) => v \in mem
  BY ConstantAssumption DEF TypeOK, ConstantAssumption, HoldInv
<1>1. CASE SetupFS(h)
  BY <1>0, <1>1 DEF SetupFS, Uses, Holds, list
<1>2. CASE CleanupFS(h)
  <2>1. /\ UNCHANGED <<cmd, currvol>> /\ volumelist'[h] = {} /\ mem' = mem \ volumelist[h]
    BY <1>0, <1>2 DEF CleanupFS
  <2> QED
    BY <1>0, <2>1 DEF Uses, Holds, HandlerInv
<1>3. CASE EndCommand(h)
  <2>1. pc[h] = "try" /\ cmd[h] \in Command
    BY <1>3, CommandGiven DEF EndCommand, Direct, Queue, NoMemory
  <2>2. cmd[h].vol \in Volume /\ cmd[h].vol \notin volumelist[h]
        /\ (currvol[h] = NULL \/ currvol[h] = cmd[h].vol)
    BY <2>1 DEF HandlerInv, Command, Removes
  <2>3. ASSUME NEW ok, Finish(h, ok),
               mem' \subseteq mem, mem \ mem' \subseteq {cmd[h].vol},
               cmd[h].vol \in mem' \/ cmd[h].op = "REMOVE_FREE" \/ (cmd[h].op = "ADD" /\ ~ok)
        PROVE  Uses(h)
    <3>1. /\ cmd'[h].vol = NULL
          /\ currvol'[h] = IF cmd[h].op = "RENAME" \/ (cmd[h].op = "ADD" /\ ok)
                           THEN cmd[h].vol ELSE NULL
          /\ volumelist'[h] = IF cmd[h].op = "REMOVE"
                              THEN volumelist[h] \cup {cmd[h].vol} ELSE volumelist[h]
      BY <2>1, <2>3, Finished DEF NoCommand
    <3>2. cmd[h].vol \in mem
      BY <1>0, <2>2 DEF Holds
    <3> QED
      BY <1>0, <2>2, <2>3, <3>1, <3>2 DEF Uses, Holds
  <2>4. CASE Direct(h)
    <3>1. Execute(cmd[h], Undone(h, Result(cmd[h]))) /\ Finish(h, Result(cmd[h]))
      BY <2>4 DEF Direct
    <3>2. /\ mem' \subseteq mem
          /\ \A v : v # cmd[h].vol =>
               (v \notin Undone(h, Result(cmd[h])) => (v \in mem' <=> v \in mem))
          /\ cmd[h].op # "REMOVE_FREE" => mem' = mem \ Undone(h, Result(cmd[h]))
      BY <2>1, <3>1, Executed
    <3>3. /\ Undone(h, Result(cmd[h])) \subseteq {cmd[h].vol}
          /\ Undone(h, Result(cmd[h])) = {} \/ (cmd[h].op = "ADD" /\ ~Result(cmd[h]))
      BY DEF Undone
    <3>4. cmd[h].vol \in mem
      BY <1>0, <2>2 DEF Holds
    <3> QED
      BY <2>3, <3>1, <3>2, <3>3, <3>4
  <2>5. CASE Queue(h)
    <3>1. cmd[h].vol \in mem
      BY <1>0, <2>2 DEF Holds
    <3> QED
      BY <2>3, <2>5, <3>1 DEF Queue, list
  <2>6. CASE NoMemory(h)
    <3>1. cmd[h].vol \in mem
      BY <1>0, <2>2 DEF Holds
    <3> QED
      BY <2>3, <2>6, <3>1 DEF NoMemory, Undone
  <2> QED
    BY <1>3, <2>4, <2>5, <2>6 DEF EndCommand
<1>4. CASE \E v \in Volume : EndLock(h, v)
  <2>1. PICK v \in Volume : EndLock(h, v)
    BY <1>4
  <2>2. /\ UNCHANGED <<cmd, currvol>> /\ v \in volumelist[h]
        /\ volumelist'[h] = volumelist[h] \ {v} /\ mem' = mem \ {v}
    BY <1>0, <2>1 DEF EndLock
  <2> QED
    BY <1>0, <2>2 DEF Uses, Holds, HandlerInv
<1>5. CASE Die(h) /\ UNCHANGED <<pc, cmd, empty>>
  BY <1>0, <1>5 DEF Die, Uses, Holds, list
<1>6. ASSUME NEW c \in Command, Gives(h, c),
             IF c.op = "ADD" THEN c.vol \notin mem /\ mem' = mem \cup {c.vol} ELSE mem' = mem
      PROVE  Uses(h)
  <2>1. /\ cmd'[h] = c /\ UNCHANGED <<currvol, volumelist>>
        /\ currvol[h] = IF c.op = "ADD" THEN NULL ELSE c.vol
    BY <1>6 DEF Gives, AsyncCmd, TypeOK
  <2>2. c.vol \in Volume
    BY DEF Command
  <2> QED
    BY <1>0, <1>6, <2>1, <2>2 DEF Uses, Holds
<1> QED
  BY <1>1, <1>2, <1>3, <1>4, <1>5, <1>6, StepsThatGive DEF list

LEMMA HoldsKept ==
  ASSUME TypeOK, NEW h \in Handler, HandlerStep(h), NEW g \in Handler, g # h, NEW v
  PROVE  Holds(g, v)' <=> Holds(g, v)
  BY OthersKept DEF Holds

LEMMA HoldStep ==
  ASSUME TypeOK, NEW h \in Handler, HandlerStep(h), Uses(h), \A v \in Volume : HoldInv(v)
  PROVE  \A v \in Volume : HoldInv(v)'
<1> SUFFICES ASSUME NEW v \in Volume, NEW g \in Handler, Holds(g, v)'
             PROVE  v \in mem' /\ \A f \in Handler : Holds(f, v)' => f = g
  BY DEF HoldInv
<1>1. \A f \in Handler : f # h => (Holds(f, v)' <=> Holds(f, v))
  BY HoldsKept
<1>2. \A f \in Handler : Holds(f, v) => v \in mem /\ \A e \in Handler : Holds(e, v) => e = f
  BY DEF HoldInv
<1>3. /\ Holds(h, v)' => v \in mem' /\ (Holds(h, v) \/ v \notin mem)
      /\ v \in mem /\ v \notin mem' => Holds(h, v) /\ ~Holds(h, v)'
  BY DEF Uses
<1> QED
  BY <1>1, <1>2, <1>3

\* What the handlers do leaves alone what the helper is going to free.
LEMMA FreeKept ==
  ASSUME TypeOK, NEW h \in Handler, HandlerStep(h), Uses(h),
         NEW v \in Volume, v \in mem, \A g \in Handler : ~Holds(g, v)
  PROVE  v \in mem' /\ \A g \in Handler : ~Holds(g, v)'
<1>1. v \in mem' /\ ~Holds(h, v)'
  BY DEF Uses
<1> QED
  BY <1>1, HoldsKept

LEMMA FreeStep ==
  ASSUME TypeOK, NEW h \in Handler, HandlerInv(h), \A v \in Volume : HoldInv(v), FreeInv,
         HandlerStep(h), Uses(h)
  PROVE  FreeInv'
<1>2. CASE port' = port
  BY <1>2, FreeKept DEF FreeInv
<1>3. CASE Queue(h)
  <2>1. pc[h] = "try" /\ port' = Append(port, cmd[h]) /\ Finish(h, TRUE) /\ mem' = mem
    BY <1>3 DEF Queue, list
  <2>2. cmd[h] \in Command /\ cmd[h].vol \in Volume /\ cmd[h].vol # NULL
    BY <2>1, CommandGiven, ConstantAssumption DEF Command, ConstantAssumption
  <2>3. /\ DOMAIN port = 1..Len(port) /\ DOMAIN port' = 1..Len(port) + 1 /\ Len(port) \in Nat
        /\ port'[Len(port) + 1] = cmd[h] /\ \A i \in 1..Len(port) : port'[i] = port[i]
    BY <2>1, <2>2, AppendPort
  <2>4. Holds(h, cmd[h].vol)
    BY DEF Holds
  <2>5. \A i \in DOMAIN port : port[i].op = "REMOVE_FREE" => port[i].vol # cmd[h].vol
    BY <2>2, <2>4 DEF FreeInv
  <2>6. ASSUME NEW v \in Volume, v = cmd[h].vol, cmd[h].op = "REMOVE_FREE"
        PROVE  v \in mem' /\ \A g \in Handler : ~Holds(g, v)'
    <3>1. v \in mem /\ \A g \in Handler : Holds(g, v) => g = h
      BY <2>4, <2>6 DEF HoldInv
    <3>2. PICK ok : Finish(h, ok)
      BY <2>1
    <3>3. cmd'[h].vol = NULL /\ currvol'[h] = NULL /\ volumelist'[h] = volumelist[h]
      <4>1. /\ cmd'[h] = NoCommand
            /\ currvol'[h] = IF cmd[h].op = "RENAME" \/ (cmd[h].op = "ADD" /\ ok)
                             THEN cmd[h].vol ELSE NULL
            /\ volumelist'[h] = IF cmd[h].op = "REMOVE"
                                THEN volumelist[h] \cup {cmd[h].vol} ELSE volumelist[h]
        <5>1. pc[h] = "try"
          BY <2>1
        <5> QED
          BY <3>2, <5>1, Finished
      <4> QED
        BY <2>6, <4>1 DEF NoCommand
    <3>4. v \notin volumelist[h] /\ v # NULL
      BY <2>2, <2>6 DEF HandlerInv
    <3>5. ~Holds(h, v)'
      BY <3>3, <3>4 DEF Holds
    <3> QED
      BY <2>1, <3>1, <3>5, HoldsKept
  <2>7. ASSUME NEW v \in Volume, NEW i \in DOMAIN port, port[i].op = "REMOVE_FREE",
               port[i].vol = v
        PROVE  /\ v \in mem' /\ \A g \in Handler : ~Holds(g, v)'
               /\ \A j \in DOMAIN port : port[j].op = "REMOVE_FREE" /\ port[j].vol = v => i = j
    BY <2>7, FreeKept DEF FreeInv
  <2> SUFFICES ASSUME NEW v \in Volume, NEW i \in DOMAIN port', port'[i].op = "REMOVE_FREE",
                      port'[i].vol = v
               PROVE  /\ v \in mem' /\ \A g \in Handler : ~Holds(g, v)'
                      /\ \A j \in DOMAIN port' :
                           port'[j].op = "REMOVE_FREE" /\ port'[j].vol = v => i = j
    BY DEF FreeInv
  <2>8. CASE i \in DOMAIN port
    BY <2>3, <2>5, <2>7, <2>8
  <2>9. CASE i \notin DOMAIN port
    BY <2>3, <2>5, <2>6, <2>9
  <2> QED
    BY <2>8, <2>9
<1>4. port' = port \/ Queue(h)
  <2>1. CASE SetupFS(h) \/ CleanupFS(h) \/ Direct(h) \/ NoMemory(h)
    BY <2>1 DEF SetupFS, CleanupFS, Direct, NoMemory, helper
  <2>2. CASE (\E v \in Volume : EndLock(h, v)) \/ Die(h)
    BY <2>2 DEF EndLock, Die, helper
  <2>3. CASE \E c \in Command : Gives(h, c)
    BY <2>3 DEF Gives, helper
  <2> QED
    BY <2>1, <2>2, <2>3, StepsThatGive DEF EndCommand
<1> QED
  BY <1>2, <1>3, <1>4

\* The helper frees what nobody uses.
LEMMA ServeKeeps ==
  ASSUME TypeOK, \A v \in Volume : HoldInv(v), FreeInv, ServeMessage
  PROVE  (\A v \in Volume : HoldInv(v)') /\ FreeInv'
<1>1. /\ port # <<>> /\ Execute(Head(port), {}) /\ port' = Tail(port)
      /\ UNCHANGED <<pc, cmd, currvol, volumelist>>
  BY DEF ServeMessage, handler
<1>2. /\ Len(port) \in Nat /\ 1 \in DOMAIN port
      /\ DOMAIN port = 1..Len(port) /\ DOMAIN port' = 1..Len(port) - 1
      /\ Head(port) = port[1] /\ Head(port) \in Command
      /\ \A i \in 1..Len(port) - 1 : port'[i] = port[i + 1]
  BY <1>1, TailPort
<1>3. \A g \in Handler : \A v : Holds(g, v)' <=> Holds(g, v)
  BY <1>1 DEF Holds
<1>4. /\ \A v : v # port[1].vol => (v \in mem' <=> v \in mem)
      /\ port[1].op # "REMOVE_FREE" => mem' = mem
  <2>1. Execute(port[1], {}) /\ port[1] \in Command
    BY <1>1, <1>2
  <2>2. \A v : v # port[1].vol => (v \notin {} => (v \in mem' <=> v \in mem))
    BY <2>1, Executed
  <2>3. port[1].op # "REMOVE_FREE" => mem' = mem \ {}
    BY <2>1, Executed
  <2> QED
    BY <2>2, <2>3
<1>5. ASSUME NEW v \in Volume PROVE HoldInv(v)'
  <2>1. ASSUME NEW g \in Handler, Holds(g, v) PROVE v \in mem'
    <3>1. v \in mem
      BY <2>1 DEF HoldInv
    <3>2. port[1].op = "REMOVE_FREE" => v # port[1].vol
      BY <1>2, <2>1 DEF FreeInv
    <3> QED
      BY <1>4, <3>1, <3>2
  <2> QED
    BY <1>3, <2>1 DEF HoldInv
<1>6. FreeInv'
  <2> SUFFICES ASSUME NEW v \in Volume, NEW i \in DOMAIN port', port'[i].op = "REMOVE_FREE",
                      port'[i].vol = v
               PROVE  /\ v \in mem' /\ \A g \in Handler : ~Holds(g, v)'
                      /\ \A j \in DOMAIN port' :
                           port'[j].op = "REMOVE_FREE" /\ port'[j].vol = v => i = j
    BY DEF FreeInv
  <2>1. i + 1 \in DOMAIN port /\ i + 1 # 1 /\ port'[i] = port[i + 1]
    BY <1>2
  <2>2. /\ v \in mem /\ \A g \in Handler : ~Holds(g, v)
        /\ \A j \in DOMAIN port : port[j].op = "REMOVE_FREE" /\ port[j].vol = v => i + 1 = j
    BY <2>1 DEF FreeInv
  <2>3. v \in mem'
    <3>1. port[1].op = "REMOVE_FREE" => port[1].vol # v
      BY <1>2, <2>1, <2>2
    <3> QED
      BY <1>4, <2>2, <3>1
  <2>4. ASSUME NEW j \in DOMAIN port', port'[j].op = "REMOVE_FREE", port'[j].vol = v
        PROVE  i = j
    <3>1. j + 1 \in DOMAIN port /\ port'[j] = port[j + 1]
      BY <1>2
    <3>2. i + 1 = j + 1
      BY <2>2, <2>4, <3>1
    <3> QED
      BY <1>2, <3>2
  <2> QED
    BY <1>3, <2>1, <2>2, <2>3, <2>4
<1> QED
  BY <1>5, <1>6

-----------------------------------------------------------------------------
(* The helper *)

\* With its priority above the handlers' the helper has seen all commands when
\* it looks whether it is needed.
LEMMA HelperStep ==
  ASSUME HelperFirst, TypeOK, HelperInv, \A h \in Handler : HandlerInv(h), [Next]_vars
  PROVE  HelperInv'
<1>1. CASE OtherLock \/ OtherUnlock \/ UNCHANGED vars
  BY <1>1 DEF HelperInv, OtherLock, OtherUnlock, vars, helper, handler
<1>2. CASE Wake \/ LockList \/ UnlockList \/ ReadCount
  BY <1>2 DEF HelperInv, TypeOK, Wake, LockList, UnlockList, ReadCount, handler
<1>3. CASE EndOrWait
  BY <1>3, NobodyIn DEF HelperInv, EndOrWait, handler
<1>4. CASE ServeMessage
  BY <1>4 DEF HelperInv, ServeMessage, handler
<1>5. ASSUME NEW h \in Handler, HandlerStep(h)
      PROVE  HelperInv'
  <2>1. CASE SetupFS(h)
    BY <2>1 DEF HelperInv, TypeOK, SetupFS
  <2>2. CASE CleanupFS(h)
    BY <2>2 DEF HelperInv, TypeOK, CleanupFS
  <2>3. CASE Queue(h)
    <3>1. /\ HandlerRuns /\ pc[h] = "try" /\ dlpc' = dlpc /\ dlsig' = TRUE
      BY <2>3 DEF Queue
    <3>2. dlpc # "none"
      BY <3>1 DEF HelperInv
    <3> QED
      BY <3>1, <3>2 DEF HelperInv, HandlerRuns, HelperReady, TypeOK
  <2>4. CASE Direct(h) \/ NoMemory(h)
    <3>1. pc[h] = "try" /\ UNCHANGED <<port, dlpc, dlsig>>
      BY <2>4 DEF Direct, NoMemory, helper
    <3> QED
      BY <3>1 DEF HelperInv
  <2>5. CASE (\E v \in Volume : EndLock(h, v)) \/ Die(h)
    <3>1. pc[h] = "loop" /\ UNCHANGED <<port, dlpc, dlsig>>
      BY <2>5 DEF EndLock, Die, helper
    <3> QED
      BY <3>1 DEF HelperInv
  <2>6. CASE \E c \in Command : Gives(h, c)
    <3>1. pc[h] = "loop" /\ UNCHANGED <<port, dlpc, dlsig>>
      BY <2>6 DEF Gives, helper
    <3> QED
      BY <3>1 DEF HelperInv
  <2> QED
    BY <1>5, <2>1, <2>2, <2>3, <2>4, <2>5, <2>6, StepsThatGive DEF EndCommand
<1> QED
  BY <1>1, <1>2, <1>3, <1>4, <1>5 DEF Next, FbxDosListProc

-----------------------------------------------------------------------------
(* Where a volume will be *)

LEMMA SameAfter ==
  ASSUME NEW v, UNCHANGED port, v \in doslist' <=> v \in doslist
  PROVE  /\ OutAfter(v)' <=> OutAfter(v)
         /\ (v \in refused' <=> v \in refused) => (InAfter(v)' <=> InAfter(v))
  BY DEF InAfter, OutAfter, LastIn, OnlyRenames

\* The command that a handler leaves to the helper comes after all others.
LEMMA QueuedAfter ==
  ASSUME TypeOK, NEW c \in Command, port' = Append(port, c), UNCHANGED <<doslist, refused>>,
         NEW v
  PROVE  /\ v # c.vol \/ c.op = "RENAME" => (InAfter(v) => InAfter(v)')
                                            /\ (OutAfter(v) => OutAfter(v)')
         /\ v = c.vol /\ c.op = "ADD" => InAfter(v)'
         /\ v = c.vol /\ c.op \in Removes => OutAfter(v)'
<1>1. /\ Len(port) \in Nat /\ DOMAIN port = 1..Len(port) /\ DOMAIN port' = 1..Len(port) + 1
      /\ port'[Len(port) + 1] = c /\ \A i \in 1..Len(port) : port'[i] = port[i]
  BY AppendPort
<1>2. ASSUME v # c.vol \/ c.op = "RENAME", NEW ops, LastIn(v, ops)
      PROVE  LastIn(v, ops)'
  <2>1. PICK i \in DOMAIN port :
          /\ port[i].vol = v /\ port[i].op \in ops
          /\ \A j \in DOMAIN port : j > i /\ port[j].vol = v => port[j].op = "RENAME"
    BY <1>2 DEF LastIn
  <2>2. i \in DOMAIN port' /\ port'[i].vol = v /\ port'[i].op \in ops
    BY <1>1, <2>1
  <2>3. ASSUME NEW j \in DOMAIN port', j > i, port'[j].vol = v PROVE port'[j].op = "RENAME"
    BY <1>1, <1>2, <2>1, <2>3
  <2> QED
    BY <2>2, <2>3 DEF LastIn
<1>3. ASSUME v # c.vol \/ c.op = "RENAME", OnlyRenames(v)
      PROVE  OnlyRenames(v)'
  BY <1>1, <1>3 DEF OnlyRenames
<1>4. ASSUME v = c.vol, NEW ops, c.op \in ops
      PROVE  LastIn(v, ops)'
  <2>1. Len(port) + 1 \in DOMAIN port' /\ \A j \in DOMAIN port' : ~(j > Len(port) + 1)
    BY <1>1
  <2> QED
    BY <1>1, <1>4, <2>1 DEF LastIn
<1>5. v # c.vol \/ c.op = "RENAME" => (InAfter(v) => InAfter(v)') /\ (OutAfter(v) => OutAfter(v)')
  BY <1>2, <1>3 DEF InAfter, OutAfter
<1>6. v = c.vol /\ c.op = "ADD" => InAfter(v)'
  BY <1>4 DEF InAfter
<1>7. v = c.vol /\ c.op \in Removes => OutAfter(v)'
  BY <1>4 DEF OutAfter
<1> QED
  BY <1>5, <1>6, <1>7

\* The helper does what was expected of it.
LEMMA ServedAfter ==
  ASSUME TypeOK, ServeMessage, NEW v
  PROVE  (InAfter(v) => InAfter(v)') /\ (OutAfter(v) => OutAfter(v)')
<1> DEFINE c == port[1]
<1>1. /\ port # <<>> /\ Execute(Head(port), {}) /\ port' = Tail(port)
  BY DEF ServeMessage
<1>2. /\ Len(port) \in Nat /\ 1 \in DOMAIN port
      /\ DOMAIN port = 1..Len(port) /\ DOMAIN port' = 1..Len(port) - 1
      /\ Head(port) = c /\ c \in Command
      /\ \A i \in 1..Len(port) - 1 : port'[i] = port[i + 1]
  BY <1>1, TailPort
<1>3. /\ v # c.vol => (v \in doslist' <=> v \in doslist) /\ (v \in refused' <=> v \in refused)
      /\ c.op = "ADD" => c.vol \in doslist' \cup refused'
      /\ c.op = "RENAME" => /\ c.vol \in doslist \cup refused => c.vol \in doslist' \cup refused'
                            /\ c.vol \notin doslist => c.vol \notin doslist'
      /\ c.op \in Removes => c.vol \notin doslist'
  BY <1>1, <1>2, Executed
<1>4. ASSUME OnlyRenames(v) PROVE OnlyRenames(v)' /\ (v = c.vol => c.op = "RENAME")
  <2>1. \A j \in DOMAIN port' : j + 1 \in DOMAIN port
    BY <1>2
  <2> QED
    BY <1>2, <1>4, <2>1 DEF OnlyRenames
<1>5. ASSUME NEW ops, LastIn(v, ops)
      PROVE  LastIn(v, ops)' \/ (OnlyRenames(v)' /\ v = c.vol /\ c.op \in ops)
  <2>1. PICK i \in DOMAIN port :
          /\ port[i].vol = v /\ port[i].op \in ops
          /\ \A j \in DOMAIN port : j > i /\ port[j].vol = v => port[j].op = "RENAME"
    BY <1>5 DEF LastIn
  <2>2. \A j \in DOMAIN port' : j + 1 \in DOMAIN port /\ port'[j] = port[j + 1] /\ j \in Nat /\ j > 0
    BY <1>2
  <2>3. CASE i = 1
    <3>1. OnlyRenames(v)'
      <4>1. \A j \in DOMAIN port' : j + 1 > i
        BY <2>2, <2>3
      <4> QED
        BY <2>1, <2>2, <4>1 DEF OnlyRenames
    <3> QED
      BY <2>1, <2>3, <3>1
  <2>4. CASE i # 1
    <3>1. i - 1 \in DOMAIN port' /\ port'[i - 1] = port[i] /\ i \in Nat
      BY <1>2, <2>4
    <3>2. ASSUME NEW j \in DOMAIN port', j > i - 1, port'[j].vol = v
          PROVE  port'[j].op = "RENAME"
      <4>1. j + 1 > i
        BY <2>2, <3>1, <3>2
      <4> QED
        BY <2>1, <2>2, <3>2, <4>1
    <3> QED
      BY <2>1, <3>1, <3>2 DEF LastIn
  <2> QED
    BY <2>3, <2>4
<1> HIDE DEF c
<1>6. ASSUME InAfter(v) PROVE InAfter(v)'
  <2>1. CASE LastIn(v, {"ADD"})
    BY <1>3, <1>5, <2>1 DEF InAfter
  <2>2. CASE OnlyRenames(v) /\ v \in doslist \cup refused
    BY <1>3, <1>4, <2>2 DEF InAfter
  <2> QED
    BY <1>6, <2>1, <2>2 DEF InAfter
<1>7. ASSUME OutAfter(v) PROVE OutAfter(v)'
  <2>1. CASE LastIn(v, Removes)
    BY <1>3, <1>5, <2>1 DEF OutAfter
  <2>2. CASE OnlyRenames(v) /\ v \notin doslist
    BY <1>3, <1>4, <2>2 DEF OutAfter
  <2> QED
    BY <1>7, <2>1, <2>2 DEF OutAfter
<1> QED
  BY <1>6, <1>7

\* What a handler carries out itself is done at once: nothing is left to the
\* helper then.
LEMMA DirectAfter ==
  ASSUME TypeOK, port = <<>>, UNCHANGED port, NEW c \in Command, NEW frees, Execute(c, frees),
         NEW v
  PROVE  /\ v # c.vol \/ c.op = "RENAME" => (InAfter(v) => InAfter(v)')
                                            /\ (OutAfter(v) => OutAfter(v)')
         /\ v = c.vol /\ c.op = "ADD" => InAfter(v)'
         /\ v = c.vol /\ c.op \in Removes => OutAfter(v)'
<1>1. /\ v # c.vol => (v \in doslist' <=> v \in doslist) /\ (v \in refused' <=> v \in refused)
      /\ c.op = "ADD" => c.vol \in doslist' \cup refused'
      /\ c.op = "RENAME" => /\ c.vol \in doslist \cup refused => c.vol \in doslist' \cup refused'
                            /\ c.vol \notin doslist => c.vol \notin doslist'
      /\ c.op \in Removes => c.vol \notin doslist'
  BY Executed
<1>2. DOMAIN port = {}
  BY PortType, EmptySeq
<1>3. /\ InAfter(v) <=> v \in doslist \cup refused
      /\ InAfter(v)' <=> v \in doslist' \cup refused'
      /\ OutAfter(v) <=> v \notin doslist
      /\ OutAfter(v)' <=> v \notin doslist'
  BY <1>2 DEF InAfter, OutAfter, LastIn, OnlyRenames
<1> QED
  BY <1>1, <1>3

LEMMA FollowStep ==
  ASSUME HelperFirst, TypeOK, HelperInv, NEW h \in Handler, HandlerInv(h),
         \A v \in Volume : HoldInv(v), HandlerStep(h), NEW v \in Volume, FollowInv(v)
  PROVE  FollowInv(v)'
<1>0. /\ currvol \in [Handler -> Volume \cup {NULL}] /\ NULL \notin Volume
      /\ \A g \in Handler : Holds(g, v) => v \in mem /\ \A f \in Handler : Holds(f, v) => f = g
  BY ConstantAssumption DEF TypeOK, ConstantAssumption, HoldInv
<1>1. CASE UNCHANGED <<port, doslist, refused, currvol>>
  BY <1>1, SameAfter DEF FollowInv
<1>2. CASE SetupFS(h) \/ CleanupFS(h) \/ (\E w \in Volume : EndLock(h, w))
           \/ (Die(h) /\ UNCHANGED <<pc, cmd, empty>>)
  BY <1>1, <1>2 DEF SetupFS, CleanupFS, EndLock, Die, list, helper
<1>3. ASSUME NEW c \in Command, Gives(h, c), UNCHANGED list
      PROVE  FollowInv(v)'
  BY <1>1, <1>3 DEF Gives, list, helper
<1>4. ASSUME NEW c \in Command, Gives(h, c), c.vol \notin mem, refused' = refused \ {c.vol}
      PROVE  FollowInv(v)'
  <2>1. UNCHANGED <<port, doslist, currvol>>
    BY <1>4 DEF Gives, helper
  <2>2. (\E g \in Handler : currvol[g] = v) => (v \in refused' <=> v \in refused)
    BY <1>0, <1>4 DEF Holds
  <2> QED
    BY <2>1, <2>2, SameAfter DEF FollowInv
<1>5. CASE EndCommand(h)
  <2> DEFINE c == cmd[h]
  <2>1. pc[h] = "try" /\ c \in Command
    BY <1>5, CommandGiven DEF EndCommand, Direct, Queue, NoMemory
  <2>2. /\ c.vol \in Volume /\ c.op \in {"ADD", "RENAME"} \cup Removes /\ Holds(h, c.vol)
        /\ currvol[h] = IF c.op = "ADD" THEN NULL ELSE c.vol
    BY <2>1 DEF Command, HandlerInv, Holds, Removes
  <2>3. \A g \in Handler : g # h => currvol'[g] = currvol[g]
    BY OthersKept
  <2>4. ASSUME NEW ok, Finish(h, ok)
        PROVE  currvol'[h] = IF c.op = "RENAME" \/ (c.op = "ADD" /\ ok) THEN c.vol ELSE NULL
    <3>1. /\ cmd'[h] = NoCommand
          /\ currvol'[h] = IF cmd[h].op = "RENAME" \/ (cmd[h].op = "ADD" /\ ok)
                           THEN cmd[h].vol ELSE NULL
          /\ volumelist'[h] = IF cmd[h].op = "REMOVE"
                              THEN volumelist[h] \cup {cmd[h].vol} ELSE volumelist[h]
      <4>1. pc[h] = "try"
        BY <2>1
      <4> QED
        BY <2>4, <4>1, Finished
    <3> QED
      BY <3>1
  <2> HIDE DEF c
  <2>5. \A g \in Handler : v = c.vol /\ g # h => currvol[g] # v
    BY <1>0, <2>2 DEF Holds
  <2>6. ASSUME NEW ok, Finish(h, ok),
               v # c.vol \/ c.op = "RENAME" => (InAfter(v) => InAfter(v)')
                                               /\ (OutAfter(v) => OutAfter(v)'),
               v = c.vol /\ c.op = "ADD" /\ ok => InAfter(v)',
               v = c.vol /\ c.op = "ADD" /\ ~ok /\ v \notin CanFail => OutAfter(v)',
               v = c.vol /\ c.op \in Removes /\ v \notin CanFail => OutAfter(v)'
        PROVE  FollowInv(v)'
    <3>1. currvol'[h] = IF c.op = "RENAME" \/ (c.op = "ADD" /\ ok) THEN c.vol ELSE NULL
      BY <2>4, <2>6
    <3>2. CASE v # c.vol \/ c.op = "RENAME"
      <4>1. \A g \in Handler : currvol'[g] = v <=> currvol[g] = v
        BY <1>0, <2>2, <2>3, <3>1, <3>2
      <4> QED
        BY <2>6, <3>2, <4>1 DEF FollowInv
    <3>3. CASE v = c.vol /\ c.op = "ADD" /\ ok
      <4>1. currvol'[h] = v
        BY <3>1, <3>3
      <4> QED
        BY <2>6, <3>3, <4>1 DEF FollowInv
    <3>4. CASE v = c.vol /\ ((c.op = "ADD" /\ ~ok) \/ c.op \in Removes)
      <4>1. \A g \in Handler : currvol'[g] # v
        BY <1>0, <2>3, <2>5, <3>1, <3>4 DEF Removes
      <4> QED
        BY <2>6, <3>4, <4>1 DEF FollowInv
    <3> QED
      BY <2>2, <3>2, <3>3, <3>4
  <2>7. CASE Direct(h)
    <3>1. /\ HandlerRuns /\ doslock = NULL /\ UNCHANGED port
          /\ Execute(c, Undone(h, Result(c))) /\ Finish(h, Result(c))
      BY <2>7 DEF Direct, helper, c
    <3>2. port = <<>>
      BY <3>1, PortIdle
    <3>3. /\ v # c.vol \/ c.op = "RENAME" => (InAfter(v) => InAfter(v)')
                                             /\ (OutAfter(v) => OutAfter(v)')
          /\ v = c.vol /\ c.op = "ADD" => InAfter(v)'
          /\ v = c.vol /\ c.op \in Removes => OutAfter(v)'
      BY <2>1, <3>1, <3>2, DirectAfter
    <3>4. v = c.vol /\ c.op = "ADD" /\ ~Result(c) => OutAfter(v)'
      <4>1. c.op = "ADD" /\ ~Result(c) => c.vol \notin doslist'
        BY <3>1 DEF Execute
      <4>2. DOMAIN port' = {}
        BY <3>1, <3>2, EmptySeq
      <4> QED
        BY <4>1, <4>2 DEF OutAfter, OnlyRenames
    <3> QED
      BY <2>6, <3>1, <3>3, <3>4
  <2>8. CASE Queue(h)
    <3>1. port' = Append(port, c) /\ Finish(h, TRUE) /\ UNCHANGED <<doslist, refused>>
      BY <2>8 DEF Queue, list, c
    <3>2. /\ v # c.vol \/ c.op = "RENAME" => (InAfter(v) => InAfter(v)')
                                             /\ (OutAfter(v) => OutAfter(v)')
          /\ v = c.vol /\ c.op = "ADD" => InAfter(v)'
          /\ v = c.vol /\ c.op \in Removes => OutAfter(v)'
      BY <2>1, <3>1, QueuedAfter
    <3>3. PICK ok : ok /\ Finish(h, ok)
      BY <3>1
    <3> QED
      BY <2>6, <3>2, <3>3
  <2>9. CASE NoMemory(h)
    <3>1. /\ UNCHANGED <<port, doslist, refused>> /\ c.vol \in CanFail /\ Finish(h, FALSE)
      BY <2>9 DEF NoMemory, helper, c
    <3>2. (OutAfter(v)' <=> OutAfter(v)) /\ (InAfter(v)' <=> InAfter(v))
      BY <3>1, SameAfter
    <3>3. PICK ok : ~ok /\ Finish(h, ok)
      BY <3>1
    <3> QED
      BY <2>6, <3>1, <3>2, <3>3
  <2> QED
    BY <1>5, <2>7, <2>8, <2>9 DEF EndCommand
<1> QED
  BY <1>2, <1>3, <1>4, <1>5, StepsThatGive

-----------------------------------------------------------------------------
(* Theorems *)

LEMMA Start ==
  ASSUME Init
  PROVE  IInv
<1>0. NULL \notin Volume
  BY ConstantAssumption DEF ConstantAssumption
<1>1. port = <<>> /\ DOMAIN port = {}
  BY EmptySeq DEF Init
<1>2. TypeOK
  <2>1. {h \in Handler : pc[h] # "out"} = {}
    BY DEF Init
  <2>2. refcount = Cardinality({h \in Handler : pc[h] # "out"})
    BY <2>1, FS_EmptySet DEF Init
  <2>3. port \in Seq(Command)
    BY <1>1, EmptySeq
  <2> QED
    BY <2>2, <2>3 DEF Init, TypeOK
<1>3. \A h \in Handler : HandlerInv(h)
  BY <1>0 DEF Init, HandlerInv, NoCommand, Removes
<1>4. HelperInv /\ FreeInv
  BY <1>1 DEF Init, HelperInv, FreeInv
<1>5. \A h \in Handler, v \in Volume : ~Holds(h, v)
  BY <1>0 DEF Init, Holds, NoCommand
<1>6. \A v \in Volume : OutAfter(v)
  BY <1>1 DEF Init, OutAfter, OnlyRenames
<1>7. \A v \in Volume : HoldInv(v) /\ FollowInv(v)
  BY <1>5, <1>6 DEF HoldInv, FollowInv, Holds
<1> QED
  BY <1>2, <1>3, <1>4, <1>7 DEF IInv

\* The invariant of the handlers, the helper and the commands between them.
THEOREM Invariance ==
  ASSUME HelperFirst
  PROVE  Spec => []IInv
<1>1. Init => IInv
  BY Start
<1>2. IInv /\ [Next]_vars => IInv'
  <2> SUFFICES ASSUME IInv, [Next]_vars
               PROVE  IInv'
    OBVIOUS
  <2>1. /\ TypeOK /\ HelperInv /\ FreeInv /\ \A h \in Handler : HandlerInv(h)
        /\ (\A v \in Volume : HoldInv(v)) /\ \A v \in Volume : FollowInv(v)
    BY DEF IInv
  <2>2. TypeOK' /\ HelperInv'
    BY <2>1, TypeStep, HelperStep
  <2>3. ASSUME NEW h \in Handler, HandlerStep(h)
        PROVE  IInv'
    <3>1. Uses(h)
      BY <2>1, <2>3, HandlerUses
    <3>2. FreeInv' /\ \A v \in Volume : HoldInv(v)'
      BY <2>1, <2>3, <3>1, FreeStep, HoldStep
    <3>3. ASSUME NEW g \in Handler PROVE HandlerInv(g)'
      <4>1. CASE g = h
        BY <2>1, <2>3, <4>1, HandlerStepKeeps
      <4>2. CASE g # h
        <5>1. /\ pc'[g] = pc[g] /\ cmd'[g] = cmd[g] /\ currvol'[g] = currvol[g]
              /\ volumelist'[g] = volumelist[g]
          BY <2>1, <2>3, <4>2, OthersKept
        <5>2. HandlerInv(g)
          BY <2>1
        <5> QED
          BY <5>1, <5>2 DEF HandlerInv
      <4> QED
        BY <4>1, <4>2
    <3>4. \A v \in Volume : FollowInv(v)'
      BY <2>1, <2>3, FollowStep
    <3> QED
      BY <2>2, <3>2, <3>3, <3>4 DEF IInv
  <2>4. CASE ServeMessage
    <3>1. FreeInv' /\ \A v \in Volume : HoldInv(v)'
      BY <2>1, <2>4, ServeKeeps
    <3>2. UNCHANGED <<pc, cmd, currvol, volumelist>>
      BY <2>4 DEF ServeMessage, handler
    <3>3. \A h \in Handler : HandlerInv(h)'
      BY <2>1, <3>2 DEF HandlerInv
    <3>4. \A v \in Volume : FollowInv(v)'
      BY <2>1, <2>4, <3>2, ServedAfter DEF FollowInv
    <3> QED
      BY <2>2, <3>1, <3>3, <3>4 DEF IInv
  <2>5. CASE UNCHANGED <<port, doslist, refused, mem, handler>>
    <3>1. UNCHANGED <<port, doslist, refused, mem, pc, cmd, currvol, volumelist>>
      BY <2>5 DEF handler
    <3>2. \A h \in Handler : HandlerInv(h)'
      BY <2>1, <3>1 DEF HandlerInv
    <3>3. FreeInv' /\ \A v \in Volume : HoldInv(v)'
      BY <2>1, <3>1 DEF FreeInv, HoldInv, Holds
    <3>4. \A v \in Volume : FollowInv(v)'
      BY <2>1, <3>1, SameAfter DEF FollowInv
    <3> QED
      BY <2>2, <3>2, <3>3, <3>4 DEF IInv
  <2>6. CASE OtherLock \/ OtherUnlock \/ UNCHANGED vars
             \/ Wake \/ LockList \/ UnlockList \/ ReadCount
    BY <2>5, <2>6 DEF OtherLock, OtherUnlock, vars, Wake, LockList, UnlockList, ReadCount,
                      list, helper
  <2>7. CASE EndOrWait
    <3>1. dlpc = "sema" /\ UNCHANGED <<doslist, refused, mem, handler>>
          /\ (port' = port \/ port' = <<>>)
      BY <2>7 DEF EndOrWait
    <3>2. port = <<>>
      BY <2>1, <3>1 DEF HelperInv
    <3> QED
      BY <2>5, <3>1, <3>2
  <2> QED
    BY <2>3, <2>4, <2>6, <2>7 DEF Next, FbxDosListProc
<1> QED
  BY <1>1, <1>2, PTL DEF Spec

\* When no command for a volume is on its way, the DOS list has it exactly when
\* a handler shows it, but for names that were refused and commands for which
\* there was no memory.
THEOREM ListFollowsHolds ==
  ASSUME HelperFirst
  PROVE  Spec => []ListFollows
<1>1. IInv => ListFollows
  <2> SUFFICES ASSUME IInv
               PROVE  ListFollows
    OBVIOUS
  <2>1. ASSUME NEW v \in Volume, ~Pending(v), InAfter(v)
        PROVE  v \in doslist \cup refused
    BY <2>1 DEF InAfter, LastIn, Pending
  <2>2. ASSUME NEW v \in Volume, ~Pending(v), OutAfter(v)
        PROVE  v \notin doslist
    BY <2>2 DEF OutAfter, LastIn, Pending
  <2>3. ShownIsListed
    <3> SUFFICES ASSUME NEW h \in Handler, currvol[h] # NULL, ~Pending(currvol[h])
                 PROVE  currvol[h] \in doslist \cup refused
      BY DEF ShownIsListed
    <3>1. currvol[h] \in Volume
      BY DEF IInv, TypeOK
    <3> QED
      BY <2>1, <3>1 DEF IInv, FollowInv
  <2>4. ListedIsShown
    <3> SUFFICES ASSUME NEW v \in doslist, ~Pending(v), v \notin CanFail,
                        \A h \in Handler : currvol[h] # v
                 PROVE  FALSE
      BY DEF ListedIsShown
    <3>1. v \in Volume
      BY DEF IInv, TypeOK
    <3> QED
      BY <2>2, <3>1 DEF IInv, FollowInv
  <2> QED
    BY <2>3, <2>4 DEF ListFollows
<1> QED
  BY <1>1, Invariance, PTL
=============================================================================
