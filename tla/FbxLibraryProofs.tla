--------------------------- MODULE FbxLibraryProofs ---------------------------
(***************************************************************************)
(* Proofs about FbxLibrary, for any number of handlers, and about FbxAvl,  *)
(* for any table.                                                          *)
(*                                                                         *)
(* That the library is never unloaded under running code holds whatever    *)
(* fails.  The helpers outlive their users if no helper fails to start: a  *)
(* handler that could not start one may use another handler's without      *)
(* being counted.  A handler keeps its device if no setup fails at all.    *)
(*                                                                         *)
(* Everything about a helper follows from one lemma, UsersStep: a step     *)
(* lets one handler join or leave and moves the count with it, or ends a   *)
(* helper whose count is zero, or does nothing to helper and users.        *)
(*                                                                         *)
(* The second part is about the tree of the character set, which           *)
(* FbxSetupFS makes before it joins the helpers (FbxAvl).  Its invariant   *)
(* carries the height of each node and the set of what is below it as      *)
(* witnesses: every step says what they become.  That they are what the    *)
(* recursive Height and Below compute follows by a least counterexample.   *)
(***************************************************************************)
EXTENDS FbxLibrary, FbxAvl, FiniteSetTheorems, WellFoundedInduction, TLAPS

-----------------------------------------------------------------------------
(* The library in memory *)

\* The handlers that have the library open.
Opened == {h \in Handler : pc[h] # "out"}

LoadedInv == openCnt = Cardinality(Opened) /\ CodeIsLoaded

\* Every step keeps the types.
LEMMA TypeStep == Types /\ [Next]_vars => Types'
<1> USE ConstantAssumption
<1> SUFFICES ASSUME Types, [Next]_vars PROVE Types'
  OBVIOUS
<1>1. ASSUME NEW h \in Handler, LibOpen(h) PROVE Types'
  <2>1. devnode' \in [Handler -> BOOLEAN]
    <3>1. CASE UNCHANGED devnode
      BY <3>1 DEF Types
    <3>2. CASE devnode' = [devnode EXCEPT ![h] = TRUE]
      BY <3>2, Zenon DEF Types
    <3> QED
      BY <1>1, <3>1, <3>2 DEF LibOpen
  <2>2. /\ loaded' = TRUE /\ openCnt' = openCnt + 1
        /\ pc' = [pc EXCEPT ![h] = "setup"]
        /\ starting' = starting \/ starting' = h
        /\ UNCHANGED <<helpers, cur, ports, dntask>>
    BY <1>1 DEF LibOpen
  <2> QED
    BY <2>1, <2>2 DEF Types, Label, helpers, Helper
<1>2. ASSUME NEW h \in Handler, LibClose(h) PROVE Types'
  BY <1>2 DEF LibClose, Types, Label, helpers, device, Helper
<1>3. ASSUME NEW h \in Handler, SetupResources(h) PROVE Types'
  BY <1>3 DEF SetupResources, Answer, Types, Label, helpers, device, Helper
<1>4. ASSUME NEW h \in Handler, JoinHelper(h) PROVE Types'
  BY <1>4 DEF JoinHelper, Types, Label, helpers, device, Helper
<1>5. ASSUME NEW h \in Handler, CheckHelper(h) PROVE Types'
  BY <1>5 DEF CheckHelper, Answer, Types, Label, helpers, device, Helper
<1>6. ASSUME NEW h \in Handler, FbxDie(h) PROVE Types'
  BY <1>6 DEF FbxDie, Types, Label, helpers, device, Helper
<1>7. ASSUME NEW h \in Handler, ClearDevNode(h) PROVE Types'
  BY <1>7 DEF ClearDevNode, Types, Label, helpers, device, Helper
<1>8. ASSUME NEW h \in Handler, LeaveHelper(h) PROVE Types'
  BY <1>8 DEF LeaveHelper, Types, Label, helpers, device, Helper
<1>9. ASSUME NEW p \in Helper, ReadCount(p) \/ EndHelper(p) PROVE Types'
  BY <1>9 DEF ReadCount, EndHelper, Types, Label, helpers, device, Helper
<1>10. CASE LibExpunge \/ FreeHeld
  <2>1. loaded' \in BOOLEAN /\ held' \in BOOLEAN
    BY <1>10, Zenon DEF LibExpunge, FreeHeld, Types, helpers
  <2>2. UNCHANGED <<openCnt, proc, refcount, pc, cur, ports, dntask, starting>>
    BY <1>10 DEF LibExpunge, FreeHeld, helpers, device
  <2>3. UNCHANGED devnode
    BY <1>10, Zenon DEF LibExpunge, FreeHeld, device
  <2> QED
    BY <2>1, <2>2, <2>3 DEF Types
<1>11. CASE UNCHANGED vars
  BY <1>11 DEF vars, Types, Label, helpers, device, Helper
<1>12. ASSUME NEW h \in Handler, HandlerStep(h) PROVE Types'
  BY <1>12, <1>1, <1>2, <1>3, <1>4, <1>5, <1>6, <1>7, <1>8 DEF HandlerStep
<1>13. CASE Next
  BY <1>9, <1>10, <1>12, <1>13 DEF Next
<1> QED
  BY <1>11, <1>13

\* A step moves the open count with the set of the handlers that have the
\* library open.
LEMMA OpenStep ==
  ASSUME Types, LoadedInv, [Next]_vars
  PROVE  openCnt' = Cardinality(Opened')
<1> USE ConstantAssumption
<1>1. IsFiniteSet(Opened)
  BY FS_Subset DEF Opened
<1>2. ASSUME NEW h \in Handler, LibOpen(h) PROVE openCnt' = Cardinality(Opened')
  <2>1. Opened' = Opened \cup {h} /\ h \notin Opened
    BY <1>2 DEF LibOpen, Opened, Types
  <2>2. openCnt' = openCnt + 1
    BY <1>2 DEF LibOpen
  <2> QED
    BY <1>1, <2>1, <2>2, FS_AddElement DEF LoadedInv
<1>3. ASSUME NEW h \in Handler, LibClose(h) PROVE openCnt' = Cardinality(Opened')
  <2>1. Opened' = Opened \ {h} /\ h \in Opened
    BY <1>3 DEF LibClose, Opened, Types
  <2>2. openCnt' = openCnt - 1
    BY <1>3 DEF LibClose
  <2> QED
    BY <1>1, <2>1, <2>2, FS_RemoveElement DEF LoadedInv
<1>4. ASSUME Opened' = Opened, openCnt' = openCnt
      PROVE  openCnt' = Cardinality(Opened')
  BY <1>4 DEF LoadedInv
<1>5. ASSUME NEW h \in Handler, HandlerStep(h), ~LibOpen(h), ~LibClose(h)
      PROVE  Opened' = Opened /\ openCnt' = openCnt
  BY <1>5 DEF HandlerStep, SetupResources, JoinHelper, CheckHelper, FbxDie,
              ClearDevNode, LeaveHelper, Opened, Types
<1>6. ASSUME \/ \E p \in Helper : ReadCount(p) \/ EndHelper(p)
             \/ LibExpunge \/ FreeHeld \/ UNCHANGED vars
      PROVE  Opened' = Opened /\ openCnt' = openCnt
  BY <1>6 DEF ReadCount, EndHelper, LibExpunge, FreeHeld, vars, Opened
<1> QED
  BY <1>2, <1>3, <1>4, <1>5, <1>6 DEF Next

\* The library stays in memory under every handler and helper.
LEMMA LoadedStep == Types /\ LoadedInv /\ [Next]_vars => LoadedInv'
<1> USE ConstantAssumption
<1> SUFFICES ASSUME Types, LoadedInv, [Next]_vars PROVE CodeIsLoaded'
  BY OpenStep DEF LoadedInv
<1>1. CodeIsLoaded
  BY DEF LoadedInv
<1>2. ASSUME NEW h \in Handler, LibOpen(h) PROVE CodeIsLoaded'
  BY <1>2 DEF LibOpen, CodeIsLoaded
<1>3. ASSUME NEW h \in Handler, HandlerStep(h), ~LibOpen(h) PROVE CodeIsLoaded'
  <2>1. pc[h] # "out" /\ loaded' = loaded
    BY <1>3 DEF HandlerStep, LibClose, SetupResources, JoinHelper, CheckHelper,
                FbxDie, ClearDevNode, LeaveHelper
  <2> QED
    BY <2>1, <1>1 DEF CodeIsLoaded
<1>4. ASSUME NEW p \in Helper, ReadCount(p) \/ EndHelper(p) PROVE CodeIsLoaded'
  BY <1>4, <1>1 DEF ReadCount, EndHelper, CodeIsLoaded, Types
<1>5. CASE LibExpunge
  <2>1. Opened = {}
    <3>1. IsFiniteSet(Opened)
      BY FS_Subset DEF Opened
    <3> QED
      BY <3>1, <1>5, FS_EmptySet DEF LibExpunge, LoadedInv
  <2> QED
    BY <2>1, <1>5 DEF LibExpunge, CodeIsLoaded, Opened, helpers
<1>6. CASE FreeHeld \/ UNCHANGED vars
  BY <1>6, <1>1 DEF FreeHeld, vars, helpers, CodeIsLoaded
<1> QED
  BY <1>2, <1>3, <1>4, <1>5, <1>6, Zenon DEF Next

\* The initial state is of the types.
LEMMA InitTypes == Init => Types
<1> SUFFICES ASSUME Init PROVE Types
  OBVIOUS
<1>1. devnode \in [Handler -> BOOLEAN] /\ loaded \in BOOLEAN /\ held \in BOOLEAN
  BY DEF Init
<1>2. /\ openCnt = 0 /\ dntask = NULL /\ starting = NULL
      /\ proc = [p \in Helper |-> "none"] /\ refcount = [p \in Helper |-> 0]
      /\ pc = [h \in Handler |-> "out"] /\ cur = [h \in Handler |-> "dl"]
      /\ ports = [h \in Handler |-> {}]
  BY DEF Init
<1> QED
  BY <1>1, <1>2 DEF Types, Label, Helper

\* Types and the library in memory, whatever fails.
THEOREM Loaded == Spec => [](Types /\ LoadedInv)
<1>1. Init => Types /\ LoadedInv
  <2> SUFFICES ASSUME Init PROVE Types /\ LoadedInv
    OBVIOUS
  <2>3. Types
    BY InitTypes
  <2>2. Opened = {}
    BY DEF Init, Opened
  <2> QED
    BY <2>3, <2>2, FS_EmptySet DEF Init, LoadedInv, CodeIsLoaded
<1>2. Types /\ LoadedInv /\ [Next]_vars => (Types /\ LoadedInv)'
  BY TypeStep, LoadedStep
<1> QED
  BY <1>1, <1>2, PTL DEF Spec

\* Every variable keeps its type (LibInit, FbxSetupFS, FbxCleanupFS and the
\* two helper processes).
THEOREM TypeCorrect == Spec => []TypeOK
<1>1. Types /\ LoadedInv => TypeOK
  <2> SUFFICES ASSUME Types, LoadedInv PROVE openCnt >= 0
    BY DEF TypeOK
  <2>1. IsFiniteSet(Opened)
    BY FS_Subset, ConstantAssumption DEF Opened
  <2> QED
    BY <2>1, FS_CardinalityType DEF LoadedInv
<1> QED
  BY <1>1, Loaded, PTL

\* LibExpunge never takes the code from under a handler or a helper process.
THEOREM CodeIsLoadedHolds == Spec => []CodeIsLoaded
<1>1. LoadedInv => CodeIsLoaded
  BY DEF LoadedInv
<1> QED
  BY <1>1, Loaded, PTL
-----------------------------------------------------------------------------
(* The helpers and their users, when helpers do start *)

\* Which ports a handler can have where it is.
PortsInv ==
  \A h \in Handler :
    /\ pc[h] \in {"out", "setup", "close"} => ports[h] = {}
    /\ pc[h] \in {"join", "check"} => cur[h] \notin ports[h]
    /\ pc[h] \in {"join", "check"} /\ cur[h] = "dl" => ports[h] = {}
    /\ pc[h] = "leave" /\ cur[h] = "lh" => "dl" \notin ports[h]

\* A helper with users is there, and its count is their number.
UsersInv ==
  \A p \in Helper : /\ refcount[p] = Cardinality(Users(p))
                    /\ Users(p) # {} => proc[p] # "none"

\* Nothing that concerns helper p changes, or the helper changes its mind.
Same(p) ==
  /\ Users(p)' = Users(p) /\ refcount'[p] = refcount[p]
  /\ proc'[p] = "none" <=> proc[p] = "none"

Joins(p) ==
  \E h \in Handler \ Users(p) :
    /\ Users(p)' = Users(p) \cup {h} /\ refcount'[p] = refcount[p] + 1
    /\ proc'[p] # "none"

Leaves(p) ==
  \E h \in Users(p) :
    /\ Users(p)' = Users(p) \ {h} /\ refcount'[p] = refcount[p] - 1
    /\ proc'[p] = proc[p]

Ends(p) ==
  /\ Users(p)' = Users(p) /\ refcount'[p] = refcount[p] /\ refcount[p] = 0
  /\ proc[p] # "none" /\ proc'[p] = "none"

UsersIInv == Types /\ PortsInv /\ UsersInv

\* A handler gets and gives up its ports and what it has joined in order.
LEMMA PortsStep == Types /\ PortsInv /\ [Next]_vars => PortsInv'
<1> SUFFICES ASSUME Types, PortsInv, [Next]_vars PROVE PortsInv'
  OBVIOUS
<1> USE DEF Types, PortsInv, Helper
<1>1. ASSUME NEW h \in Handler, LibOpen(h) \/ LibClose(h) PROVE PortsInv'
  BY <1>1 DEF LibOpen, LibClose
<1>2. ASSUME NEW h \in Handler, SetupResources(h) \/ JoinHelper(h)
      PROVE  PortsInv'
  BY <1>2 DEF SetupResources, JoinHelper
<1>3. ASSUME NEW h \in Handler, CheckHelper(h) PROVE PortsInv'
  BY <1>3 DEF CheckHelper
<1>4. ASSUME NEW h \in Handler, FbxDie(h) \/ ClearDevNode(h) PROVE PortsInv'
  BY <1>4 DEF FbxDie, ClearDevNode
<1>5. ASSUME NEW h \in Handler, LeaveHelper(h) PROVE PortsInv'
  BY <1>5 DEF LeaveHelper
<1>6. ASSUME UNCHANGED <<pc, cur, ports>> PROVE PortsInv'
  BY <1>6
<1>7. ASSUME \/ \E p \in Helper : ReadCount(p) \/ EndHelper(p)
             \/ LibExpunge \/ FreeHeld \/ UNCHANGED vars
      PROVE  UNCHANGED <<pc, cur, ports>>
  BY <1>7 DEF ReadCount, EndHelper, LibExpunge, FreeHeld, vars
<1>8. ASSUME NEW h \in Handler, HandlerStep(h) PROVE PortsInv'
  BY <1>8, <1>1, <1>2, <1>3, <1>4, <1>5 DEF HandlerStep
<1> QED
  BY <1>6, <1>7, <1>8 DEF Next

\* What a step can do to a helper and its users.
LEMMA UsersStep ==
  ASSUME "start" \notin CanFail, Types, PortsInv, UsersInv, [Next]_vars,
         NEW p \in Helper
  PROVE  Same(p) \/ Joins(p) \/ Leaves(p) \/ Ends(p)
<1> USE DEF Types
<1>1. ASSUME UNCHANGED <<pc, cur, ports, refcount, proc>> PROVE Same(p)
  BY <1>1 DEF Same, Users, Joining
<1>2. ASSUME NEW h \in Handler, LibOpen(h) \/ LibClose(h) \/ SetupResources(h)
                                \/ FbxDie(h) \/ ClearDevNode(h)
      PROVE  Same(p)
  <2>1. UNCHANGED <<refcount, proc, ports>>
    BY <1>2 DEF LibOpen, LibClose, SetupResources, FbxDie, ClearDevNode, helpers
  <2>2. \A g \in Handler, q \in Helper : Joining(g, q)' <=> Joining(g, q)
    BY <1>2 DEF LibOpen, LibClose, SetupResources, FbxDie, ClearDevNode, Joining
  <2> QED
    BY <2>1, <2>2 DEF Same, Users
<1>3. ASSUME NEW h \in Handler, JoinHelper(h) PROVE Same(p) \/ Joins(p)
  <2>1. /\ pc[h] = "join" /\ pc' = [pc EXCEPT ![h] = "check"]
        /\ UNCHANGED <<cur, ports>>
        /\ proc' = [proc EXCEPT ![cur[h]] = IF @ = "none" THEN "run" ELSE @]
        /\ refcount' = [refcount EXCEPT ![cur[h]] = @ + 1]
    BY <1>3 DEF JoinHelper
  <2>2. CASE cur[h] = p
    <3>1. h \notin Users(p)
      BY <2>1, <2>2 DEF Users, Joining, PortsInv
    <3>2. Users(p)' = Users(p) \cup {h}
      BY <2>1, <2>2 DEF Users, Joining
    <3> QED
      BY <2>1, <2>2, <3>1, <3>2 DEF Joins
  <2>3. CASE cur[h] # p
    <3>1. Users(p)' = Users(p)
      BY <2>1, <2>3 DEF Users, Joining
    <3> QED
      BY <2>1, <2>3, <3>1 DEF Same
  <2> QED
    BY <2>2, <2>3
<1>4. ASSUME NEW h \in Handler, CheckHelper(h) PROVE Same(p)
  <2>1. UNCHANGED <<refcount, proc>> /\ pc[h] = "check" /\ cur[h] \in Helper
    BY <1>4 DEF CheckHelper, helpers
  <2>2. h \in Users(cur[h])
    BY <2>1 DEF Users, Joining
  <2>3. proc[cur[h]] # "none"
    BY <2>1, <2>2 DEF UsersInv
  <2>4. /\ ports' = [ports EXCEPT ![h] = @ \cup {cur[h]}]
        /\ \/ pc' = [pc EXCEPT ![h] = "join"] /\ cur' = [cur EXCEPT ![h] = "lh"]
           \/ pc' = [pc EXCEPT ![h] = "up"] /\ cur' = cur
    BY <1>4, <2>3 DEF CheckHelper
  <2>5. Users(p)' = Users(p)
    BY <2>1, <2>4 DEF Users, Joining
  <2> QED
    BY <2>1, <2>5 DEF Same
<1>5. ASSUME NEW h \in Handler, LeaveHelper(h) PROVE Same(p) \/ Leaves(p)
  <2>1. /\ pc[h] = "leave" /\ proc' = proc
        /\ refcount' = IF cur[h] \in ports[h]
                       THEN [refcount EXCEPT ![cur[h]] = @ - 1] ELSE refcount
        /\ ports' = [ports EXCEPT ![h] = @ \ {cur[h]}]
        /\ \/ cur' = [cur EXCEPT ![h] = "lh"] /\ pc' = pc
           \/ pc' = [pc EXCEPT ![h] = "close"] /\ cur' = cur
    BY <1>5 DEF LeaveHelper
  <2>2. CASE cur[h] = p /\ p \in ports[h]
    <3>1. h \in Users(p) /\ Users(p)' = Users(p) \ {h}
      BY <2>1, <2>2 DEF Users, Joining
    <3> QED
      BY <2>1, <2>2, <3>1 DEF Leaves
  <2>3. CASE ~(cur[h] = p /\ p \in ports[h])
    <3>1. Users(p)' = Users(p) /\ refcount'[p] = refcount[p]
      BY <2>1, <2>3 DEF Users, Joining
    <3> QED
      BY <2>1, <3>1 DEF Same
  <2> QED
    BY <2>2, <2>3
<1>6. ASSUME NEW q \in Helper, ReadCount(q) \/ EndHelper(q)
      PROVE  Same(p) \/ Ends(p)
  <2>1. Users(p)' = Users(p) /\ refcount' = refcount
    BY <1>6 DEF ReadCount, EndHelper, Users, Joining
  <2>2. \/ proc'[p] = "none" <=> proc[p] = "none"
        \/ proc[p] # "none" /\ proc'[p] = "none" /\ refcount[p] = 0
    BY <1>6 DEF ReadCount, EndHelper
  <2> QED
    BY <2>1, <2>2 DEF Same, Ends
<1>7. ASSUME LibExpunge \/ FreeHeld \/ UNCHANGED vars
      PROVE  UNCHANGED <<pc, cur, ports, refcount, proc>>
  BY <1>7 DEF LibExpunge, FreeHeld, vars, helpers
<1>8. ASSUME NEW h \in Handler, HandlerStep(h)
      PROVE  Same(p) \/ Joins(p) \/ Leaves(p)
  BY <1>8, <1>2, <1>3, <1>4, <1>5 DEF HandlerStep
<1> QED
  BY <1>1, <1>6, <1>7, <1>8 DEF Next

\* The count follows the users, and only a helper without users ends.
LEMMA UsersInvStep ==
  ASSUME "start" \notin CanFail, UsersIInv, [Next]_vars
  PROVE  UsersIInv'
<1> USE ConstantAssumption
<1>1. Types' /\ PortsInv'
  BY TypeStep, PortsStep DEF UsersIInv
<1>2. ASSUME NEW p \in Helper
      PROVE  /\ refcount'[p] = Cardinality(Users(p)')
             /\ Users(p)' # {} => proc'[p] # "none"
  <2>1. /\ IsFiniteSet(Users(p)) /\ refcount[p] = Cardinality(Users(p))
        /\ Users(p) # {} => proc[p] # "none"
    BY FS_Subset DEF Users, UsersIInv, UsersInv
  <2>2. Same(p) \/ Joins(p) \/ Leaves(p) \/ Ends(p)
    BY UsersStep DEF UsersIInv
  <2>3. CASE Same(p)
    BY <2>1, <2>3 DEF Same
  <2>4. CASE Joins(p)
    BY <2>1, <2>4, FS_AddElement DEF Joins
  <2>5. CASE Leaves(p)
    BY <2>1, <2>5, FS_RemoveElement DEF Leaves
  <2>6. CASE Ends(p)
    BY <2>1, <2>6, FS_EmptySet DEF Ends
  <2> QED
    BY <2>2, <2>3, <2>4, <2>5, <2>6
<1> QED
  BY <1>1, <1>2 DEF UsersIInv, UsersInv

\* At first nobody uses a helper, and its count is zero.
LEMMA UsersInvInit == Init => UsersIInv
<1> SUFFICES ASSUME Init PROVE UsersIInv
  OBVIOUS
<1>1. Types
  BY InitTypes
<1>2. PortsInv
  BY DEF Init, PortsInv
<1>3. \A p \in Helper : Users(p) = {}
  BY DEF Init, Users, Joining
<1> QED
  BY <1>1, <1>2, <1>3, FS_EmptySet DEF UsersIInv, UsersInv, Init

\* The inductive invariant about the users of the helpers.
THEOREM Shared == ASSUME "start" \notin CanFail PROVE Spec => []UsersIInv
<1>1. UsersIInv /\ [Next]_vars => UsersIInv'
  BY UsersInvStep
<1> QED
  BY <1>1, UsersInvInit, PTL DEF Spec

\* A handler that has the port of a helper finds the helper alive.
THEOREM UsersAliveHolds == ASSUME "start" \notin CanFail PROVE Spec => []UsersAlive
<1>1. UsersIInv => UsersAlive
  <2> SUFFICES ASSUME UsersIInv, NEW h \in Handler, NEW p \in ports[h]
               PROVE  proc[p] # "none"
    BY DEF UsersAlive
  <2> QED
    BY DEF UsersIInv, UsersInv, Users, Types
<1> QED
  BY <1>1, Shared, PTL

\* The count of a helper is the number of the handlers that joined it.
THEOREM CountIsUsersHolds == ASSUME "start" \notin CanFail PROVE Spec => []CountIsUsers
<1>1. UsersIInv => CountIsUsers
  BY DEF UsersIInv, UsersInv, CountIsUsers
<1> QED
  BY <1>1, Shared, PTL

\* The DOS list helper implements FbxHelper.
THEOREM DosListRefines == ASSUME "start" \notin CanFail PROVE Spec => DosListPromise
<1> USE DEF DosListHelper!Init, DosListHelper!Next, DosListHelper!Join,
            DosListHelper!Leave, DosListHelper!End
<1>1. Init => DosListHelper!Init
  BY DEF Init, Users, Joining, Helper
<1>2. UsersIInv /\ [Next]_vars
        => [DosListHelper!Next]_<<Users("dl"), proc["dl"] # "none">>
  <2> SUFFICES ASSUME UsersIInv, [Next]_vars
               PROVE  [DosListHelper!Next]_<<Users("dl"), proc["dl"] # "none">>
    OBVIOUS
  <2>1. "dl" \in Helper
    BY DEF Helper
  <2>2. /\ IsFiniteSet(Users("dl")) /\ refcount["dl"] = Cardinality(Users("dl"))
        /\ Users("dl") # {} => proc["dl"] # "none"
    BY <2>1, FS_Subset, ConstantAssumption DEF Users, UsersIInv, UsersInv
  <2>3. Same("dl") \/ Joins("dl") \/ Leaves("dl") \/ Ends("dl")
    BY <2>1, UsersStep DEF UsersIInv
  <2>4. CASE Same("dl")
    BY <2>4, Zenon DEF Same
  <2>5. CASE Joins("dl")
    BY <2>5, Zenon DEF Joins
  <2>6. CASE Leaves("dl")
    BY <2>6, Zenon DEF Leaves, Users
  <2>7. CASE Ends("dl")
    <3>1. Users("dl") = {}
      BY <2>2, <2>7, FS_EmptySet DEF Ends
    <3> QED
      BY <3>1, <2>7, Zenon DEF Ends
  <2> QED
    BY <2>3, <2>4, <2>5, <2>6, <2>7
<1> QED
  BY <1>1, <1>2, Shared, PTL DEF Spec, DosListPromise, DosListHelper!Spec

\* The lock handler implements FbxHelper.
THEOREM LockHandlerRefines == ASSUME "start" \notin CanFail PROVE Spec => LockHandlerPromise
<1> USE DEF LockHandlerHelper!Init, LockHandlerHelper!Next, LockHandlerHelper!Join,
            LockHandlerHelper!Leave, LockHandlerHelper!End
<1>1. Init => LockHandlerHelper!Init
  BY DEF Init, Users, Joining, Helper
<1>2. UsersIInv /\ [Next]_vars
        => [LockHandlerHelper!Next]_<<Users("lh"), proc["lh"] # "none">>
  <2> SUFFICES ASSUME UsersIInv, [Next]_vars
               PROVE  [LockHandlerHelper!Next]_<<Users("lh"), proc["lh"] # "none">>
    OBVIOUS
  <2>1. "lh" \in Helper
    BY DEF Helper
  <2>2. /\ IsFiniteSet(Users("lh")) /\ refcount["lh"] = Cardinality(Users("lh"))
        /\ Users("lh") # {} => proc["lh"] # "none"
    BY <2>1, FS_Subset, ConstantAssumption DEF Users, UsersIInv, UsersInv
  <2>3. Same("lh") \/ Joins("lh") \/ Leaves("lh") \/ Ends("lh")
    BY <2>1, UsersStep DEF UsersIInv
  <2>4. CASE Same("lh")
    BY <2>4, Zenon DEF Same
  <2>5. CASE Joins("lh")
    BY <2>5, Zenon DEF Joins
  <2>6. CASE Leaves("lh")
    BY <2>6, Zenon DEF Leaves, Users
  <2>7. CASE Ends("lh")
    <3>1. Users("lh") = {}
      BY <2>2, <2>7, FS_EmptySet DEF Ends
    <3> QED
      BY <3>1, <2>7, Zenon DEF Ends
  <2> QED
    BY <2>3, <2>4, <2>5, <2>6, <2>7
<1> QED
  BY <1>1, <1>2, Shared, PTL DEF Spec, LockHandlerPromise, LockHandlerHelper!Spec
-----------------------------------------------------------------------------
(* The device node *)

\* While a handler starts for the device nothing answers for it; a handler that
\* has its device node is starting, or the device is its own.
DeviceInv ==
  /\ \A h \in Handler :
       /\ pc[h] \in {"out", "cleanup", "leave", "close"} => ~devnode[h]
       /\ pc[h] \in {"setup", "join", "check"} /\ devnode[h] => starting = h
       /\ pc[h] = "up" /\ devnode[h] => dntask = h
       /\ starting = h => pc[h] \in {"setup", "join", "check"} /\ devnode[h]
  /\ starting # NULL => dntask = NULL

\* dn_Task changes only while no other handler has a device.
LEMMA DeviceStep ==
  ASSUME CanFail = {}, UsersIInv, DeviceInv, [Next]_vars
  PROVE  DeviceInv'
<1> USE ConstantAssumption DEF Types, DeviceInv
<1>0. Types
  BY DEF UsersIInv
<1>1. ASSUME NEW h \in Handler, LibOpen(h) PROVE DeviceInv'
  BY <1>0, <1>1 DEF LibOpen
<1>2. ASSUME NEW h \in Handler, LibClose(h) \/ LeaveHelper(h)
      PROVE  DeviceInv'
  BY <1>0, <1>2 DEF LibClose, LeaveHelper, device
<1>3. ASSUME NEW h \in Handler, SetupResources(h) \/ JoinHelper(h)
      PROVE  DeviceInv'
  BY <1>0, <1>3 DEF SetupResources, JoinHelper, device
<1>4. ASSUME NEW h \in Handler, CheckHelper(h) PROVE DeviceInv'
  <2>1. pc[h] = "check" /\ cur[h] \in Helper /\ h \in Users(cur[h])
    BY <1>0, <1>4 DEF CheckHelper, Users, Joining
  <2>2. proc[cur[h]] # "none"
    BY <2>1 DEF UsersIInv, UsersInv
  <2>3. /\ devnode' = devnode
        /\ \/ /\ pc' = [pc EXCEPT ![h] = "join"]
              /\ UNCHANGED <<starting, dntask>>
           \/ /\ pc' = [pc EXCEPT ![h] = "up"]
              /\ dntask' = IF devnode[h] THEN h ELSE dntask
              /\ starting' = IF starting = h THEN NULL ELSE starting
    BY <1>4, <2>2 DEF CheckHelper, Answer
  <2> QED
    BY <1>0, <2>1, <2>3
<1>5. ASSUME NEW h \in Handler, FbxDie(h) PROVE DeviceInv'
  BY <1>0, <1>5 DEF FbxDie
<1>6. ASSUME NEW h \in Handler, ClearDevNode(h) PROVE DeviceInv'
  BY <1>0, <1>6 DEF ClearDevNode
<1>7. ASSUME \/ \E p \in Helper : ReadCount(p) \/ EndHelper(p)
             \/ LibExpunge \/ FreeHeld \/ UNCHANGED vars
      PROVE  DeviceInv'
  <2>1. UNCHANGED <<pc, dntask, devnode, starting>>
    BY <1>7 DEF ReadCount, EndHelper, LibExpunge, FreeHeld, vars, device
  <2> QED
    BY <2>1
<1>8. ASSUME NEW h \in Handler, HandlerStep(h) PROVE DeviceInv'
  BY <1>8, <1>1, <1>2, <1>3, <1>4, <1>5, <1>6 DEF HandlerStep
<1> QED
  BY <1>7, <1>8 DEF Next

\* FbxDie and FbxCleanupFS take the device from no other handler
\* (dn_Task is set in FbxSetupFS), if no setup fails.
THEOREM DeviceAnsweredHolds ==
  ASSUME CanFail = {} PROVE Spec => []DeviceAnswered
<1>1. Init => UsersIInv /\ DeviceInv
  <2> SUFFICES ASSUME Init PROVE UsersIInv /\ DeviceInv
    OBVIOUS
  <2>1. UsersIInv
    BY UsersInvInit
  <2>2. \A h \in Handler : pc[h] = "out" /\ devnode[h] = FALSE
    BY DEF Init
  <2>3. starting = NULL /\ dntask = NULL
    BY DEF Init
  <2> QED
    BY <2>1, <2>2, <2>3, ConstantAssumption DEF DeviceInv
<1>2. UsersIInv /\ DeviceInv /\ [Next]_vars => (UsersIInv /\ DeviceInv)'
  BY UsersInvStep, DeviceStep
<1>3. DeviceInv => DeviceAnswered
  BY DEF DeviceInv, DeviceAnswered
<1> QED
  BY <1>1, <1>2, <1>3, PTL DEF Spec

-----------------------------------------------------------------------------
(* The tree of the character set *)

\* A set of numbers has a least one.
LEMMA LeastNumber ==
  ASSUME NEW T \in SUBSET Nat, NEW t \in T
  PROVE  \E m \in T : \A k \in T : m <= k
<1>1. IsWellFoundedOn(OpToRel(<, Nat), Nat)
  BY NatLessThanWellFounded
<1>2. PICK m \in T : \A k \in T : ~ (<<k, m>> \in OpToRel(<, Nat))
  BY <1>1, WFMin
<1>3. \A k \in T : ~ (k < m)
  BY <1>2, Zenon DEF OpToRel
<1> QED
  BY <1>3

\* m is on this side of n.
OnSide(K, side, m, n) == IF side = "left" THEN K[m] < K[n] ELSE K[m] > K[n]

\* Nodes N with keys K are linked to a search tree, and B has what is below each.
Shape(K, N, r, l, p, B) ==
  /\ NIL \notin N /\ r \in N \cup {NIL}
  /\ \A n \in N : K[n] \in Int
  /\ l \in [N -> [Side -> N \cup {NIL}]]
  /\ p \in [N -> N \cup {NIL}]
  /\ B \in [N \cup {NIL} -> SUBSET N] /\ B[NIL] = {} /\ B[r] = N
  /\ \A n \in N, side \in Side : l[n][side] # NIL => p[l[n][side]] = n
  /\ \A n \in N : B[n] = {n} \cup B[l[n]["left"]] \cup B[l[n]["right"]]
  /\ \A n \in N, side \in Side : \A m \in B[l[n][side]] : OnSide(K, side, m, n)
  /\ \A n \in N : IF n = r THEN p[n] = NIL
                  ELSE p[n] \in N /\ \E side \in Side : l[p[n]][side] = n
  /\ \A n, m \in N : m \in B[n] => B[m] \subseteq B[n] /\ (m # n => p[m] \in B[n])

\* What follows for a node and its children.
LEMMA ShapeFacts ==
  ASSUME NEW K, NEW N, NEW r, NEW l, NEW p, NEW B, Shape(K, N, r, l, p, B),
         NEW n \in N, NEW s \in Side
  PROVE  /\ l[n][s] \in N \cup {NIL} /\ p[n] \in N \cup {NIL}
         /\ l[n][s] \notin {n, r} \/ l[n][s] = NIL
         /\ B[n] = {n} \cup B[l[n][s]] \cup B[l[n][Opposite(s)]]
         /\ n \notin B[l[n][s]]
         /\ B[l[n][s]] \cap B[l[n][Opposite(s)]] = {}
         /\ l[n][s] # NIL => l[n][s] \in B[l[n][s]] /\ l[n][s] # l[n][Opposite(s)]
<1>1. s \in {"left", "right"} /\ Opposite(s) \in Side /\ Opposite(s) # s
  BY DEF Side, Opposite
<1>2. l[n][s] \in N \cup {NIL} /\ l[n][Opposite(s)] \in N \cup {NIL} /\ p[n] \in N \cup {NIL}
  BY <1>1 DEF Shape
<1>3. B[n] = {n} \cup B[l[n][s]] \cup B[l[n][Opposite(s)]]
  BY <1>1 DEF Shape, Opposite, Side
<1>4. \A m \in B[l[n][s]] : OnSide(K, s, m, n)
  BY DEF Shape
<1>5. \A m \in B[l[n][Opposite(s)]] : OnSide(K, Opposite(s), m, n)
  BY <1>1 DEF Shape
<1>6. B[l[n][s]] \subseteq N /\ \A m \in N : K[m] \in Int
  BY <1>2 DEF Shape
<1>7. n \notin B[l[n][s]]
  BY <1>4, <1>6 DEF OnSide
<1>8. B[l[n][s]] \cap B[l[n][Opposite(s)]] = {}
  BY <1>1, <1>4, <1>5, <1>6 DEF OnSide, Opposite
<1>9. \A m \in N : m \in B[m]
  BY DEF Shape
<1>10. l[n][s] # NIL => p[l[n][s]] = n /\ l[n][s] \in N /\ n # NIL
  BY <1>2 DEF Shape
<1>11. l[n][s] # r \/ l[n][s] = NIL
  BY <1>10 DEF Shape
<1> QED
  BY <1>2, <1>3, <1>7, <1>8, <1>9, <1>10, <1>11

\* A node is linked once.
LEMMA OneLink ==
  ASSUME NEW K, NEW N, NEW r, NEW l, NEW p, NEW B, Shape(K, N, r, l, p, B),
         NEW n \in N, NEW m \in N, NEW s \in Side, NEW e \in Side,
         l[n][s] = l[m][e], l[n][s] # NIL
  PROVE  n = m /\ s = e
<1>1. n = m
  BY DEF Shape
<1>2. s # e => e = Opposite(s)
  BY DEF Side, Opposite
<1> QED
  BY <1>1, <1>2, ShapeFacts

\* The links, the parents and what is below after a rotation of x and z, which is
\* on side s of x: z comes up, and t, on its other side, goes over to x.
Lifted(l, s, x, z) ==
  [n \in DOMAIN l |-> [e \in Side |->
     IF n = x /\ e = s THEN l[z][Opposite(s)]
     ELSE IF n = z /\ e = Opposite(s) THEN x
     ELSE IF l[n][e] = x THEN z
     ELSE l[n][e]]]

LiftedParents(p, t, x, z) ==
  [n \in DOMAIN p |-> IF n = x THEN z ELSE IF n = z THEN p[x] ELSE IF n = t THEN x ELSE p[n]]

LiftedBelow(B, u, t, x, z) ==
  [n \in DOMAIN B |-> IF n = z THEN B[x] ELSE IF n = x THEN {x} \cup B[u] \cup B[t] ELSE B[n]]

\* A rotation keeps a search tree one, and the nodes below all but x and z.
LEMMA RotationKeepsShape ==
  ASSUME NEW K, NEW N, NEW r, NEW l, NEW p, NEW B, Shape(K, N, r, l, p, B),
         NEW x \in N, NEW z \in N, NEW s \in Side, l[x][s] = z,
         NEW t, t = l[z][Opposite(s)], NEW u, u = l[x][Opposite(s)],
         NEW l2, l2 = Lifted(l, s, x, z),
         NEW p2, p2 = LiftedParents(p, t, x, z),
         NEW r2, r2 = IF r = x THEN z ELSE r,
         NEW B2, B2 = LiftedBelow(B, u, t, x, z)
  PROVE  Shape(K, N, r2, l2, p2, B2)
<1> DEFINE o == Opposite(s)
           c == l[z][s]
<1>1. /\ s \in Side /\ o \in Side /\ o # s /\ Opposite(o) = s
      /\ \A e \in Side : e = s \/ e = o
      /\ NIL \notin N /\ x # NIL /\ z # NIL
  BY DEF Side, Opposite, Shape
<1>2. /\ t \in N \cup {NIL} /\ u \in N \cup {NIL} /\ c \in N \cup {NIL}
      /\ p[x] \in N \cup {NIL} /\ p[z] = x /\ z # r
  BY <1>1, ShapeFacts DEF Shape
<1>3. /\ B[x] = {x} \cup B[u] \cup B[z] /\ x \notin B[u] /\ x \notin B[z]
      /\ B[u] \cap B[z] = {} /\ z \in B[z] /\ u # z
  BY <1>1, ShapeFacts
<1>4. /\ B[z] = {z} \cup B[t] \cup B[c] /\ z \notin B[t] /\ z \notin B[c]
      /\ B[t] \cap B[c] = {}
  BY <1>1, ShapeFacts
<1>5. /\ t # NIL => t \in B[t] /\ p[t] = z
      /\ u # NIL => u \in B[u] /\ p[u] = x
      /\ c # NIL => c \in B[c] /\ p[c] = z
      /\ c # NIL => c # t
  <2>1. \A n \in N, e \in Side : l[n][e] # NIL => l[n][e] \in B[l[n][e]] /\ p[l[n][e]] = n
    BY ShapeFacts DEF Shape
  <2>2. c # NIL => c # t
    BY <1>1, <1>4, ShapeFacts
  <2> QED
    BY <1>1, <2>1, <2>2
<1>6. /\ t # x /\ t # z /\ u # x /\ u # z /\ c # x /\ c # z /\ x # z
      /\ t # NIL => t # u
  BY <1>1, <1>3, <1>4, <1>5
<1>7. /\ \A n \in N, e \in Side : l[n][e] \in N \cup {NIL}
      /\ \A n \in N : p[n] \in N \cup {NIL}
      /\ \A n \in N \cup {NIL} : B[n] \subseteq N
  BY DEF Shape
<1>8. /\ l2 \in [N -> [Side -> N \cup {NIL}]]
      /\ \A n \in N, e \in Side :
           l2[n][e] = IF n = x /\ e = s THEN t
                      ELSE IF n = z /\ e = o THEN x
                      ELSE IF l[n][e] = x THEN z ELSE l[n][e]
  <2>1. DOMAIN l = N
    BY DEF Shape
  <2> QED
    BY <1>1, <1>2, <1>7, <2>1 DEF Lifted
<1>9. /\ p2 \in [N -> N \cup {NIL}]
      /\ \A n \in N : p2[n] = IF n = x THEN z ELSE IF n = z THEN p[x]
                              ELSE IF n = t THEN x ELSE p[n]
  <2>1. DOMAIN p = N
    BY DEF Shape
  <2> QED
    BY <1>2, <1>7, <2>1 DEF LiftedParents
<1>10. /\ B2 \in [N \cup {NIL} -> SUBSET N]
       /\ \A n \in N \cup {NIL} : B2[n] = IF n = z THEN B[x]
                                  ELSE IF n = x THEN {x} \cup B[u] \cup B[t] ELSE B[n]
  <2>1. DOMAIN B = N \cup {NIL}
    BY DEF Shape
  <2> QED
    BY <1>2, <1>7, <2>1 DEF LiftedBelow
<1>11. B[NIL] = {} /\ B[r] = N /\ r \in N \cup {NIL}
  BY DEF Shape
<1>12. /\ r2 \in N \cup {NIL} /\ B2[NIL] = {} /\ B2[r2] = N
  BY <1>1, <1>2, <1>10, <1>11
<1>13. \A n, m \in N, e, f \in Side : l[n][e] = l[m][f] /\ l[n][e] # NIL => n = m /\ e = f
  BY OneLink
<1>14. ASSUME NEW n \in N, NEW e \in Side, l2[n][e] # NIL
       PROVE  p2[l2[n][e]] = n
  <2>1. \A m \in N, f \in Side : l[m][f] # NIL => p[l[m][f]] = m
    BY DEF Shape
  <2>2. CASE n = x /\ e = s
    BY <1>1, <1>2, <1>6, <1>8, <1>9, <1>14, <2>2
  <2>3. CASE n = z /\ e = o
    BY <1>1, <1>2, <1>6, <1>8, <1>9, <1>14, <2>3
  <2>4. CASE ~(n = x /\ e = s) /\ ~(n = z /\ e = o) /\ l[n][e] = x
    BY <1>1, <1>2, <1>6, <1>8, <1>9, <1>14, <2>1, <2>4
  <2>5. CASE ~(n = x /\ e = s) /\ ~(n = z /\ e = o) /\ l[n][e] # x
    <3>1. l2[n][e] = l[n][e] /\ p[l[n][e]] = n /\ l[n][e] \in N
      BY <1>1, <1>7, <1>8, <1>14, <2>1, <2>5
    <3>2. l[n][e] # z /\ l[n][e] # t
      BY <1>1, <1>13, <1>14, <2>5, <3>1
    <3> QED
      BY <1>9, <2>5, <3>1, <3>2
  <2> QED
    BY <2>2, <2>3, <2>4, <2>5
<1>15. ASSUME NEW n \in N, n # x, n # z, NEW e \in Side
       PROVE  B2[l2[n][e]] = B[l[n][e]]
  <2>1. l[n][e] # z
    BY <1>1, <1>13, <1>15
  <2> QED
    BY <1>1, <1>7, <1>8, <1>10, <1>15, <2>1
<1>16. /\ l2[x][s] = t /\ l2[x][o] = u /\ l2[z][o] = x /\ l2[z][s] = c
       /\ B2[t] = B[t] /\ B2[u] = B[u] /\ B2[c] = B[c]
       /\ B2[x] = {x} \cup B[u] \cup B[t] /\ B2[z] = B[x]
  BY <1>1, <1>2, <1>6, <1>8, <1>10
<1>17. ASSUME NEW n \in N
       PROVE  B2[n] = {n} \cup B2[l2[n]["left"]] \cup B2[l2[n]["right"]]
  <2>1. CASE n = x
    <3>1. B2[x] = {x} \cup B2[l2[x][s]] \cup B2[l2[x][o]]
      BY <1>16
    <3> QED
      BY <1>1, <2>1, <3>1 DEF Side, Opposite
  <2>2. CASE n = z
    <3>1. B2[z] = {z} \cup B2[l2[z][s]] \cup B2[l2[z][o]]
      BY <1>3, <1>4, <1>16
    <3> QED
      BY <1>1, <2>2, <3>1 DEF Side, Opposite
  <2>3. CASE n # x /\ n # z
    <3>1. B[n] = {n} \cup B[l[n]["left"]] \cup B[l[n]["right"]]
      BY DEF Shape
    <3> QED
      BY <1>10, <1>15, <2>3, <3>1 DEF Side
  <2> QED
    BY <2>1, <2>2, <2>3
<1>18. ASSUME NEW n \in N, NEW e \in Side, NEW m \in B2[l2[n][e]]
       PROVE  OnSide(K, e, m, n)
  <2>1. /\ \A i \in N, f \in Side : \A j \in B[l[i][f]] : OnSide(K, f, j, i)
        /\ \A i \in N : K[i] \in Int
    BY DEF Shape
  <2>2. OnSide(K, s, z, x)
    BY <1>3, <2>1
  <2>3. OnSide(K, o, x, z)
    BY <1>1, <2>2 DEF OnSide, Opposite
  <2>4. CASE n = x
    <3>1. e = s => m \in B[z]
      BY <1>4, <1>16, <1>18, <2>4
    <3>2. e = o => m \in B[u]
      BY <1>16, <1>18, <2>4
    <3> QED
      BY <1>1, <2>1, <2>4, <3>1, <3>2
  <2>5. CASE n = z /\ e = s
    BY <1>16, <1>18, <2>1, <2>5
  <2>6. CASE n = z /\ e = o
    <3>1. m \in {x} \cup B[u] \cup B[t]
      BY <1>16, <1>18, <2>6
    <3>2. CASE m \in B[u]
      <4>1. OnSide(K, o, m, x) /\ m \in N
        BY <1>1, <1>2, <1>7, <2>1, <3>2
      <4> QED
        BY <2>1, <2>3, <2>6, <4>1 DEF OnSide
    <3> QED
      BY <1>1, <2>1, <2>3, <2>6, <3>1, <3>2
  <2>7. CASE n # x /\ n # z
    BY <1>15, <1>18, <2>1, <2>7
  <2> QED
    BY <1>1, <2>4, <2>5, <2>6, <2>7
<1>19. ASSUME NEW n \in N
       PROVE  IF n = r2 THEN p2[n] = NIL
              ELSE p2[n] \in N /\ \E e \in Side : l2[p2[n]][e] = n
  <2>1. \A m \in N : IF m = r THEN p[m] = NIL
                     ELSE p[m] \in N /\ \E e \in Side : l[p[m]][e] = m
    BY DEF Shape
  <2>2. CASE n = x
    BY <1>1, <1>6, <1>9, <1>16, <2>2, <1>2
  <2>3. CASE n = z
    <3>1. CASE r = x
      BY <1>6, <1>9, <2>1, <2>3, <3>1
    <3>2. CASE r # x
      <4>1. PICK e \in Side : l[p[x]][e] = x
        BY <2>1, <3>2
      <4>2. p[x] \in N /\ p[x] # x /\ ~(p[x] = z /\ e = o)
        BY <1>1, <1>6, <2>1, <3>2, <4>1, ShapeFacts
      <4>3. l2[p[x]][e] = z
        BY <1>8, <4>1, <4>2
      <4> QED
        BY <1>2, <1>6, <1>9, <2>3, <3>2, <4>2, <4>3
    <3> QED
      BY <3>1, <3>2
  <2>4. CASE n = t
    BY <1>1, <1>5, <1>6, <1>9, <1>16, <2>1, <2>4
  <2>5. CASE n # x /\ n # z /\ n # t
    <3>1. p2[n] = p[n] /\ (n = r2 <=> n = r)
      BY <1>9, <2>5
    <3>2. ASSUME NEW e \in Side, l[p[n]][e] = n, n # r PROVE l2[p[n]][e] = n
      <4>1. p[n] \in N
        BY <2>1, <3>2
      <4>2. ~(p[n] = x /\ e = s) /\ ~(p[n] = z /\ e = o)
        BY <2>5, <3>2
      <4> QED
        BY <1>8, <2>5, <3>2, <4>1, <4>2
    <3> QED
      BY <2>1, <3>1, <3>2
  <2> QED
    BY <2>2, <2>3, <2>4, <2>5
<1>20. ASSUME NEW n \in N, NEW m \in N, m \in B2[n]
       PROVE  B2[m] \subseteq B2[n] /\ (m # n => p2[m] \in B2[n])
  <2>1. \A i, j \in N : j \in B[i] => B[j] \subseteq B[i] /\ (j # i => p[j] \in B[i])
    BY DEF Shape
  <2>2. B2[x] \subseteq B[x]
    BY <1>3, <1>4, <1>16
  <2>3. CASE n = z
    <3>1. m \in B[x] /\ x \in B[x] /\ z \in B[x]
      BY <1>3, <1>16, <1>20, <2>3
    <3>2. B2[m] \subseteq B[x]
      BY <1>10, <2>1, <2>2, <3>1
    <3>3. m # z => p2[m] \in B[x]
      BY <1>9, <2>1, <3>1
    <3> QED
      BY <1>16, <2>3, <3>2, <3>3
  <2>4. CASE n = x
    <3>1. m \in {x} \cup B[u] \cup B[t]
      BY <1>16, <1>20, <2>4
    <3>2. CASE m = x
      BY <2>4, <3>2
    <3>3. CASE m \in B[u]
      <4>1. m # x /\ m # z /\ m # t /\ u \in N
        <5>1. m \notin B[z] /\ m # x /\ u # NIL
          BY <1>3, <1>11, <3>3
        <5>2. m = t => m \in B[z]
          BY <1>1, <1>4, <1>5
        <5> QED
          BY <1>2, <1>3, <5>1, <5>2
      <4>2. B[m] \subseteq B[u] /\ (m # u => p[m] \in B[u])
        BY <2>1, <3>3, <4>1
      <4>3. B2[m] = B[m] /\ p2[m] = p[m]
        BY <1>9, <1>10, <4>1
      <4>4. m = u => p[m] = x
        BY <1>1, <1>5
      <4> QED
        BY <1>16, <2>4, <4>2, <4>3, <4>4
    <3>4. CASE m \in B[t]
      <4>1. m # x /\ m # z /\ t \in N
        BY <1>3, <1>4, <1>2, <1>11, <3>4
      <4>2. B[m] \subseteq B[t] /\ (m # t => p[m] \in B[t])
        BY <2>1, <3>4, <4>1
      <4> QED
        BY <1>9, <1>10, <1>16, <2>4, <4>1, <4>2
    <3> QED
      BY <3>1, <3>2, <3>3, <3>4
  <2>5. CASE n # x /\ n # z
    <3>1. m \in B[n] /\ B2[n] = B[n]
      BY <1>10, <1>20, <2>5
    <3>2. z \in B[n] => x \in B[n]
      BY <1>2, <2>1, <2>5
    <3>3. x \in B[n] => B[x] \subseteq B[n] /\ z \in B[n] /\ p[x] \in B[n]
      BY <1>3, <2>1, <2>5
    <3>4. t # NIL /\ t \in B[n] /\ t # n => z \in B[n]
      BY <1>2, <1>5, <2>1
    <3>5. B2[m] \subseteq B[n]
      BY <1>10, <2>1, <2>2, <3>1, <3>2, <3>3
    <3>6. m # n => p2[m] \in B[n]
      BY <1>1, <1>9, <2>1, <3>1, <3>2, <3>3, <3>4
    <3> QED
      BY <3>1, <3>5, <3>6
  <2> QED
    BY <2>3, <2>4, <2>5
<1>21. \A n \in N : K[n] \in Int
  BY DEF Shape
<1> HIDE DEF o, c
<1> QED
  BY <1>1, <1>8, <1>9, <1>10, <1>12, <1>14, <1>17, <1>18, <1>19, <1>20, <1>21 DEF Shape

\* What is below each node when n has become a child of q.
GrownBelow(B, q, n) ==
  [m \in DOMAIN B \cup {n} |->
     IF m = n THEN {n} ELSE IF q \in B[m] THEN B[m] \cup {n} ELSE B[m]]

\* A leaf where the search for its key has ended keeps a search tree one.
LEMMA AttachKeepsShape ==
  ASSUME NEW K, NEW N, NEW r, NEW l, NEW p, NEW B, Shape(K, N, r, l, p, B),
         NEW q \in N, NEW s \in Side, l[q][s] = NIL,
         NEW n, n \notin N, n # NIL, K[n] \in Int, OnSide(K, s, n, q),
         \A m \in N, e \in Side : q \in B[l[m][e]] => OnSide(K, e, n, m),
         NEW l2, l2 = [Grown(l, n, NoChildren) EXCEPT ![q] = [@ EXCEPT ![s] = n]],
         NEW p2, p2 = Grown(p, n, q),
         NEW B2, B2 = GrownBelow(B, q, n)
  PROVE  Shape(K, N \cup {n}, r, l2, p2, B2)
<1> DEFINE M == N \cup {n}
           o == Opposite(s)
<1>1. /\ s \in Side /\ o \in Side /\ o # s
      /\ \A e \in Side : e = s \/ e = o
      /\ NIL \notin M /\ NIL \notin N /\ q # n
      /\ \A m \in M : K[m] \in Int
  BY DEF Side, Opposite, Shape
<1>2. DOMAIN l = N /\ DOMAIN p = N /\ DOMAIN B = N \cup {NIL}
  BY DEF Shape
<1>3. /\ \A m \in N, e \in Side : l[m][e] \in N \cup {NIL}
      /\ \A m \in N : p[m] \in N \cup {NIL} /\ l[m] \in [Side -> N \cup {NIL}]
      /\ \A m \in N \cup {NIL} : B[m] \subseteq N
      /\ B[NIL] = {} /\ B[r] = N /\ r \in N \cup {NIL}
  BY DEF Shape
<1>4. /\ l2 \in [M -> [Side -> M \cup {NIL}]]
      /\ \A m \in M, e \in Side :
           l2[m][e] = IF m = n THEN NIL ELSE IF m = q /\ e = s THEN n ELSE l[m][e]
  <2> DEFINE g == Grown(l, n, NoChildren)
  <2>1. /\ g \in [M -> [Side -> M \cup {NIL}]]
        /\ \A m \in M : g[m] = IF m = n THEN NoChildren ELSE l[m]
    BY <1>2, <1>3 DEF Grown, NoChildren
  <2>2. \A e \in Side : NoChildren[e] = NIL
    BY DEF NoChildren
  <2>3. l2 = [g EXCEPT ![q] = [g[q] EXCEPT ![s] = n]]
    OBVIOUS
  <2> HIDE DEF g
  <2> DEFINE c == [g[q] EXCEPT ![s] = n]
  <2>4. c \in [Side -> M \cup {NIL}] /\ \A e \in Side : c[e] = IF e = s THEN n ELSE g[q][e]
    BY <2>1
  <2> HIDE DEF c
  <2>5. l2 = [g EXCEPT ![q] = c] /\ q \in M
    BY <2>3 DEF c
  <2>6. l2 \in [M -> [Side -> M \cup {NIL}]] /\ \A m \in M : l2[m] = IF m = q THEN c ELSE g[m]
    BY <2>1, <2>4, <2>5
  <2> QED
    BY <1>1, <2>1, <2>2, <2>4, <2>6
<1>5. /\ p2 \in [M -> M \cup {NIL}]
      /\ \A m \in M : p2[m] = IF m = n THEN q ELSE p[m]
  BY <1>2, <1>3 DEF Grown
<1>6. /\ B2 \in [M \cup {NIL} -> SUBSET M]
      /\ \A m \in M \cup {NIL} :
           B2[m] = IF m = n THEN {n} ELSE IF q \in B[m] THEN B[m] \cup {n} ELSE B[m]
  BY <1>2, <1>3 DEF GrownBelow
<1> HIDE DEF M
<1>a. \A m : m \in M <=> m \in N \/ m = n
  BY DEF M
<1>b. /\ \A e \in Side : l2[n][e] = NIL
      /\ \A m \in N, e \in Side : l2[m][e] = IF m = q /\ e = s THEN n ELSE l[m][e]
  BY <1>4, <1>a
<1>c. /\ B2[n] = {n}
      /\ \A m \in N \cup {NIL} : B2[m] = IF q \in B[m] THEN B[m] \cup {n} ELSE B[m]
  BY <1>1, <1>6, <1>a
<1>7. r \in M \cup {NIL} /\ r # n /\ B2[NIL] = {} /\ B2[r] = M
  BY <1>1, <1>3, <1>c, <1>a
<1>8. \A m \in M, e \in Side : l2[m][e] # NIL => p2[l2[m][e]] = m
  <2>1. \A m \in N, e \in Side : l[m][e] # NIL => p[l[m][e]] = m
    BY DEF Shape
  <2> QED
    BY <1>1, <1>3, <1>b, <1>5, <1>a, <2>1
<1>9. q \in B[q] /\ q \notin B[l[q][o]]
  <2>1. \A e \in Side : q \notin B[l[q][e]]
    BY ShapeFacts
  <2> QED
    BY <1>1, <2>1 DEF Shape
<1>10. ASSUME NEW m \in M
       PROVE  B2[m] = {m} \cup B2[l2[m]["left"]] \cup B2[l2[m]["right"]]
  <2>1. CASE m = n
    BY <1>b, <1>c, <1>7, <2>1 DEF Side
  <2>2. CASE m = q
    <3>1. B[q] = {q} \cup B[l[q][o]]
      BY <1>3, ShapeFacts
    <3>2. B2[l2[q][s]] = {n} /\ B2[l2[q][o]] = B[l[q][o]] /\ B2[q] = B[q] \cup {n}
      <4>1. l2[q][s] = n /\ l2[q][o] = l[q][o] /\ l[q][o] \in N \cup {NIL}
        BY <1>1, <1>3, <1>b
      <4> QED
        BY <1>c, <1>9, <4>1
    <3>3. B2[q] = {q} \cup B2[l2[q][s]] \cup B2[l2[q][o]]
      BY <3>1, <3>2
    <3> QED
      BY <1>1, <2>2, <3>3 DEF Side, Opposite
  <2>3. CASE m \in N /\ m # q
    <3>1. B[m] = {m} \cup B[l[m]["left"]] \cup B[l[m]["right"]]
      BY <2>3 DEF Shape
    <3>2. \A e \in Side : l2[m][e] = l[m][e] /\ l[m][e] \in N \cup {NIL} /\ l[m][e] # n
      BY <1>1, <1>3, <1>b, <2>3
    <3>3. CASE q \in B[m]
      <4>1. B2[m] = B[m] \cup {n}
        BY <1>c, <2>3, <3>3
      <4>2. q \in B[l[m]["left"]] \/ q \in B[l[m]["right"]]
        BY <2>3, <3>1, <3>3
      <4>3. \A e \in Side :
              B2[l2[m][e]] = IF q \in B[l[m][e]] THEN B[l[m][e]] \cup {n} ELSE B[l[m][e]]
        BY <1>c, <3>2
      <4>4. "left" \in Side /\ "right" \in Side
        BY DEF Side
      <4> DEFINE L == B[l[m]["left"]]
                 R == B[l[m]["right"]]
      <4>5. /\ B2[l2[m]["left"]] = IF q \in L THEN L \cup {n} ELSE L
            /\ B2[l2[m]["right"]] = IF q \in R THEN R \cup {n} ELSE R
            /\ B2[m] = {m} \cup L \cup R \cup {n}
            /\ q \in L \/ q \in R
        BY <3>1, <4>1, <4>2, <4>3, <4>4
      <4> HIDE DEF L, R
      <4> QED
        BY <4>5
    <3>4. CASE q \notin B[m]
      BY <1>c, <2>3, <3>1, <3>2, <3>4 DEF Side
    <3> QED
      BY <3>3, <3>4
  <2> QED
    BY <1>a, <2>1, <2>2, <2>3
<1>11. ASSUME NEW m \in M, NEW e \in Side, NEW i \in B2[l2[m][e]]
       PROVE  OnSide(K, e, i, m)
  <2>1. \A j \in N, f \in Side : \A k \in B[l[j][f]] : OnSide(K, f, k, j)
    BY DEF Shape
  <2>2. CASE m = n
    BY <1>b, <1>7, <1>11, <2>2
  <2>3. CASE m = q /\ e = s
    BY <1>1, <1>b, <1>c, <1>11, <2>3
  <2>4. CASE m \in N /\ ~(m = q /\ e = s)
    <3>1. l2[m][e] = l[m][e] /\ l[m][e] \in N \cup {NIL} /\ l[m][e] # n
      BY <1>1, <1>3, <1>b, <2>4
    <3> QED
      BY <1>c, <1>11, <2>1, <2>4, <3>1
  <2> QED
    BY <1>a, <2>2, <2>3, <2>4
<1>12. ASSUME NEW m \in M
       PROVE  IF m = r THEN p2[m] = NIL
              ELSE p2[m] \in M /\ \E e \in Side : l2[p2[m]][e] = m
  <2>1. \A i \in N : IF i = r THEN p[i] = NIL
                     ELSE p[i] \in N /\ \E e \in Side : l[p[i]][e] = i
    BY DEF Shape
  <2>2. CASE m = n
    BY <1>1, <1>b, <1>5, <1>7, <1>a, <2>2
  <2>3. CASE m \in N
    <3>1. p2[m] = p[m]
      BY <1>1, <1>5, <1>a, <2>3
    <3>2. ASSUME NEW e \in Side, p[m] \in N, l[p[m]][e] = m PROVE l2[p[m]][e] = m
      BY <1>1, <1>b, <2>3, <3>2
    <3> QED
      BY <1>a, <2>1, <2>3, <3>1, <3>2
  <2> QED
    BY <1>a, <2>2, <2>3
<1>13. ASSUME NEW i \in M, NEW m \in M, m \in B2[i]
       PROVE  B2[m] \subseteq B2[i] /\ (m # i => p2[m] \in B2[i])
  <2>1. \A j, k \in N : k \in B[j] => B[k] \subseteq B[j] /\ (k # j => p[k] \in B[j])
    BY DEF Shape
  <2>2. CASE i = n
    BY <1>c, <1>13, <2>2
  <2>3. CASE i \in N /\ m = n
    <3>1. n \notin B[i] /\ n \in B2[i]
      BY <1>3, <1>13, <2>3
    <3>2. q \in B[i] /\ B2[i] = B[i] \cup {n} /\ B2[n] = {n}
      BY <1>c, <2>3, <3>1
    <3>3. p2[n] = q
      BY <1>5, <1>a
    <3> QED
      BY <2>3, <3>1, <3>2, <3>3
  <2>4. CASE i \in N /\ m \in N
    <3>1. m \in B[i] /\ m # n
      BY <1>c, <1>13, <2>4
    <3>2. B[m] \subseteq B[i] /\ (m # i => p[m] \in B[i]) /\ p2[m] = p[m]
      BY <1>5, <1>a, <2>1, <2>4, <3>1
    <3> QED
      BY <1>c, <2>4, <3>2
  <2> QED
    BY <1>a, <2>2, <2>3, <2>4
<1> HIDE DEF o
<1>14. Shape(K, M, r, l2, p2, B2)
  BY <1>1, <1>4, <1>5, <1>6, <1>7, <1>8, <1>10, <1>11, <1>12, <1>13 DEF Shape
<1> QED
  BY <1>14 DEF M

-----------------------------------------------------------------------------

(* Heights *)

\* What the node above m takes for the height of m: that of z has grown by one,
\* and this has not been noted yet.
Noted(h, z, m) == IF m = z /\ z # NIL THEN h[m] - 1 ELSE h[m]

\* Node n has the height and the balance that its children say.
Level(l, b, h, z, n) ==
  /\ h[n] = 1 + Higher(Noted(h, z, l[n]["left"]), Noted(h, z, l[n]["right"]))
  /\ b[n] = Noted(h, z, l[n]["right"]) - Noted(h, z, l[n]["left"])

Heights(N, l, b, h, z) ==
  /\ h \in [N \cup {NIL} -> Nat] /\ h[NIL] = 0 /\ \A n \in N : h[n] > 0
  /\ b \in [N -> {-1, 0, 1}]
  /\ \A n \in N : Level(l, b, h, z, n)

\* What the balance of a node says of its children.
LEMMA Sided ==
  ASSUME NEW N, NEW l, NEW b, NEW h, NEW z, Heights(N, l, b, h, z),
         l \in [N -> [Side -> N \cup {NIL}]], NIL \notin N,
         NEW n \in N, NEW s \in Side,
         NEW i, i = Noted(h, z, l[n][s]), NEW j, j = Noted(h, z, l[n][Opposite(s)])
  PROVE  /\ i \in Nat /\ j \in Nat
         /\ b[n] = 0 => i = j /\ h[n] = 1 + i
         /\ b[n] = Sign(s) => i = j + 1 /\ h[n] = 1 + i
         /\ b[n] = -Sign(s) => j = i + 1 /\ h[n] = 1 + j
         /\ b[n] = 0 \/ b[n] = Sign(s) \/ b[n] = -Sign(s)
         /\ h[n] \in Nat /\ h[n] > 0
<1>1. \A e \in Side : l[n][e] \in N \cup {NIL}
  OBVIOUS
<1>2. i \in Nat /\ j \in Nat
  BY <1>1 DEF Noted, Heights, Side, Opposite
<1>3. CASE s = "left"
  BY <1>2, <1>3 DEF Heights, Level, Opposite, Sign, Higher
<1>4. CASE s = "right"
  BY <1>2, <1>4 DEF Heights, Level, Opposite, Sign, Higher
<1> QED
  BY <1>2, <1>3, <1>4 DEF Side

\* A node has its height and balance if its children say so.
LEMMA Balances ==
  ASSUME NEW b, NEW h, NEW z, NEW l, NEW n, NEW s \in Side,
         NEW i \in Nat, i = Noted(h, z, l[n][s]),
         NEW j \in Nat, j = Noted(h, z, l[n][Opposite(s)]),
         h[n] = 1 + Higher(i, j),
         b[n] = IF s = "right" THEN i - j ELSE j - i
  PROVE  Level(l, b, h, z, n)
BY DEF Level, Side, Opposite, Higher

\* A node keeps its height and balance if it takes its children as it did.
LEMMA SameLevel ==
  ASSUME NEW l, NEW b, NEW h, NEW z, NEW n, Level(l, b, h, z, n),
         NEW l2, NEW b2, NEW h2, NEW z2, h2[n] = h[n], b2[n] = b[n],
         \A e \in Side : Noted(h2, z2, l2[n][e]) = Noted(h, z, l[n][e])
  PROVE  Level(l2, b2, h2, z2, n)
BY DEF Level, Side

-----------------------------------------------------------------------------
(* The invariant *)

\* The search has come to `at' on the way of every character it has passed.
OnTheWay(B) ==
  \A n \in nodes, side \in Side : at \in B[link[n][side]] => OnSide(table, side, new, n)

\* h and B are the heights of the nodes and what is below them.
TreeInv(h, B) ==
  /\ Shape(table, nodes, root, link, parent, B)
  /\ Heights(nodes, link, balance, h, IF phase = "retrace" THEN at ELSE NIL)
  /\ phase = "insert" => OnTheWay(B)
  /\ phase = "retrace" /\ balance[at] = 0 => h[at] = 1

SetupInv ==
  /\ \A l \in DOMAIN table : l \in Nat \ {NIL} /\ table[l] \in Nat
  /\ nodes \cup next \subseteq DOMAIN table /\ nodes \cap next = {}
  /\ phase \in {"next", "insert", "retrace"}
  /\ phase # "next" => at \in nodes
  /\ phase = "insert" => new \in DOMAIN table \ (nodes \cup next)
  /\ \A l \in DOMAIN table \ next :
       \/ phase = "insert" /\ l = new
       \/ \E n \in nodes : table[n] = table[l]

AvlInv == SetupInv /\ \E h, B : TreeInv(h, B)

\* Without nodes there is nothing to show.
LEMMA InitAvlInv == AvlInit => AvlInv
<1> SUFFICES ASSUME AvlInit PROVE AvlInv
  OBVIOUS
<1>1. nodes = {} /\ DOMAIN parent = {} /\ DOMAIN balance = {} /\ root = NIL /\ phase = "next"
  BY DEF AvlInit, nodes
<1>2. SetupInv
  <2>1. \A l \in DOMAIN table : l \in Nat \ {NIL} /\ table[l] \in Nat
    <3>1. CASE table = NoTable
      BY <3>1 DEF NoTable
    <3>2. CASE table \in Table
      BY <3>2, TableAssumption DEF TableAssumption
    <3> QED
      BY <3>1, <3>2 DEF AvlInit
  <2> QED
    BY <1>1, <2>1 DEF SetupInv, AvlInit
<1> DEFINE h == [n \in {NIL} |-> 0]
           B == [n \in {NIL} |-> {}]
<1>3. Shape(table, nodes, root, link, parent, B)
  <2>1. link \in [{} -> [Side -> {NIL}]] /\ parent \in [{} -> {NIL}]
    BY DEF AvlInit
  <2>2. B \in [{NIL} -> SUBSET {}] /\ B[NIL] = {}
    OBVIOUS
  <2> HIDE DEF B
  <2> QED
    BY <1>1, <2>1, <2>2 DEF Shape
<1>4. Heights(nodes, link, balance, h, NIL)
  <2>1. balance \in [{} -> {-1, 0, 1}]
    BY DEF AvlInit
  <2> QED
    BY <1>1, <2>1 DEF Heights, NIL
<1>5. TreeInv(h, B)
  BY <1>1, <1>3, <1>4 DEF TreeInv
<1> QED
  BY <1>2, <1>5 DEF AvlInv

\* A leaf under q, which has been even or has had a child on the other side.
LEMMA AttachKeepsHeights ==
  ASSUME NEW N, NIL \notin N, NEW l, l \in [N -> [Side -> N \cup {NIL}]],
         NEW b, NEW h, Heights(N, l, b, h, NIL),
         NEW q \in N, NEW s \in Side, l[q][s] = NIL, NEW n, n \notin N, n # NIL,
         NEW l2, \A e \in Side : l2[n][e] = NIL,
         \A m \in N, e \in Side : l2[m][e] = IF m = q /\ e = s THEN n ELSE l[m][e],
         NEW b2, b2 = Grown(b, n, 0), NEW h2, h2 = Grown(h, n, 1)
  PROVE  Heights(N \cup {n}, l2, b2, h2, n) /\ h2[n] = 1
<1>1. DOMAIN b = N /\ DOMAIN h = N \cup {NIL} /\ q # n
  BY DEF Heights
<1>2. /\ b2 \in [N \cup {n} -> {-1, 0, 1}]
      /\ \A m \in N \cup {n} : b2[m] = IF m = n THEN 0 ELSE b[m]
  BY <1>1 DEF Grown, Heights
<1>3. /\ h2 \in [N \cup {n} \cup {NIL} -> Nat]
      /\ \A m \in N \cup {n} \cup {NIL} : h2[m] = IF m = n THEN 1 ELSE h[m]
      /\ h2[NIL] = 0 /\ \A m \in N \cup {n} : h2[m] > 0
  BY <1>1 DEF Grown, Heights
<1>4. Noted(h2, n, NIL) = 0 /\ Noted(h2, n, n) = 0
  BY <1>3 DEF Noted
<1>5. ASSUME NEW m \in N, NEW e \in Side
      PROVE  Noted(h2, n, l2[m][e]) = Noted(h, NIL, l[m][e])
  <2>1. l[m][e] \in N \cup {NIL} /\ l[m][e] # n
    OBVIOUS
  <2>2. CASE m = q /\ e = s
    <3>1. Noted(h, NIL, l[m][e]) = 0
      BY <2>2 DEF Noted, Heights
    <3> QED
      BY <1>4, <2>2, <3>1
  <2>3. CASE ~(m = q /\ e = s)
    BY <1>3, <2>1, <2>3 DEF Noted
  <2> QED
    BY <2>2, <2>3
<1>6. \A m \in N : h2[m] = h[m] /\ b2[m] = b[m]
  BY <1>2, <1>3
<1>7. ASSUME NEW m \in N \cup {n}
      PROVE  Level(l2, b2, h2, n, m)
  <2>1. CASE m = n
    BY <1>2, <1>3, <1>4, <2>1 DEF Level, Side, Higher
  <2>2. CASE m \in N
    BY <1>5, <1>6, <2>2, SameLevel DEF Heights
  <2> QED
    BY <2>1, <2>2
<1> QED
  BY <1>2, <1>3, <1>7 DEF Heights

-----------------------------------------------------------------------------
(* insert *)

\* The search begins at the root, which is on every way.
LEMMA InsertNextKeeps ==
  ASSUME AvlInv, InsertNext
  PROVE  AvlInv'
<1>1. PICK h, B : TreeInv(h, B)
  BY DEF AvlInv
<1>2. /\ phase = "next" /\ next # {} /\ table' = table
      /\ next' = next \ {new'}
      /\ \A l \in DOMAIN table : l \in Nat \ {NIL} /\ table[l] \in Nat
      /\ nodes \cup next \subseteq DOMAIN table /\ nodes \cap next = {}
      /\ \A l \in DOMAIN table \ next : \E n \in nodes : table[n] = table[l]
  BY DEF InsertNext, AvlInv, SetupInv
<1>3. new' \in next
  <2>1. next \in SUBSET Nat
    BY <1>2
  <2>2. PICK t : t \in next
    BY <1>2
  <2>3. \E m \in next : \A k \in next : m <= k
    BY <2>1, <2>2, LeastNumber
  <2> QED
    BY <2>3 DEF InsertNext
<1>4. NIL \notin DOMAIN table
  BY <1>2 DEF NIL
<1>5. CASE root # NIL
  <2>1. /\ phase' = "insert" /\ at' = root /\ link' = link /\ parent' = parent
        /\ root' = root /\ balance' = balance /\ nodes' = nodes
    BY <1>5 DEF InsertNext, tree, nodes
  <2>2. Shape(table, nodes, root, link, parent, B) /\ Heights(nodes, link, balance, h, NIL)
    BY <1>1, <1>2 DEF TreeInv
  <2>3. root \in nodes
    BY <1>5, <2>2 DEF Shape
  <2>4. OnTheWay(B)'
    <3>1. ASSUME NEW n \in nodes, NEW side \in Side PROVE root \notin B[link[n][side]]
      <4>1. link[n][side] \in nodes \cup {NIL} /\ B[NIL] = {} /\ parent[root] = NIL /\ n # NIL
        BY <2>2, <2>3 DEF Shape
      <4>2. ASSUME root \in B[link[n][side]] PROVE FALSE
        <5>1. link[n][side] \in nodes /\ link[n][side] # root
          BY <2>2, <4>1, <4>2 DEF Shape
        <5>2. parent[root] \in B[link[n][side]]
          BY <2>2, <2>3, <4>2, <5>1 DEF Shape
        <5> QED
          BY <2>2, <4>1, <5>1, <5>2 DEF Shape
      <4> QED
        BY <4>2
    <3> QED
      BY <2>1, <3>1 DEF OnTheWay
  <2>5. TreeInv(h, B)'
    BY <1>2, <2>1, <2>2, <2>4 DEF TreeInv
  <2>6. SetupInv'
    BY <1>2, <1>3, <2>1, <2>3 DEF SetupInv
  <2> QED
    BY <2>5, <2>6 DEF AvlInv
<1>6. CASE root = NIL
  <2> PICK n, h2, B2 :
        /\ n = new'
        /\ h2 = [m \in {n, NIL} |-> IF m = n THEN 1 ELSE 0]
        /\ B2 = [m \in {n, NIL} |-> IF m = n THEN {n} ELSE {}]
    OBVIOUS
  <2>1. nodes = {} /\ DOMAIN parent = {} /\ DOMAIN balance = {}
    BY <1>1, <1>6 DEF TreeInv, Shape, Heights
  <2>2. /\ link' = Grown(link, n, NoChildren) /\ parent' = Grown(parent, n, NIL)
        /\ balance' = Grown(balance, n, 0) /\ root' = n /\ phase' = "next"
    BY <1>2, <1>6 DEF InsertNext, PlantRoot
  <2>3. n # NIL /\ table[n] \in Int /\ n \in DOMAIN table
    BY <1>2, <1>3, <1>4
  <2>4. /\ link' \in [{n} -> [Side -> {NIL}]] /\ parent' \in [{n} -> {NIL}]
        /\ balance' \in [{n} -> {0}] /\ nodes' = {n} /\ \A e \in Side : link'[n][e] = NIL
    BY <2>1, <2>2 DEF Grown, NoChildren, nodes
  <2>5. /\ B2 \in [{n, NIL} -> SUBSET {n}] /\ B2[n] = {n} /\ B2[NIL] = {}
        /\ h2 \in [{n, NIL} -> Nat] /\ h2[n] = 1 /\ h2[NIL] = 0
    BY <2>3
  <2>6. Shape(table, {n}, n, link', parent', B2)
    BY <2>3, <2>4, <2>5 DEF Shape, Side
  <2>7. Heights({n}, link', balance', h2, NIL)
    BY <2>3, <2>4, <2>5 DEF Heights, Level, Noted, Higher, Side
  <2>8. TreeInv(h2, B2)'
    BY <1>2, <2>2, <2>4, <2>6, <2>7 DEF TreeInv
  <2>9. SetupInv'
    BY <1>2, <1>3, <2>1, <2>2, <2>4 DEF SetupInv
  <2> QED
    BY <2>8, <2>9 DEF AvlInv
<1> QED
  BY <1>5, <1>6

\* A known character leaves the tree alone.
LEMMA KeyKnownKeeps ==
  ASSUME AvlInv, KeyKnown
  PROVE  AvlInv'
<1>1. PICK h, B : TreeInv(h, B)
  BY DEF AvlInv
<1>2. /\ phase = "insert" /\ phase' = "next" /\ table[new] = table[at]
      /\ table' = table /\ next' = next /\ root' = root /\ link' = link
      /\ parent' = parent /\ balance' = balance /\ new' = new /\ at' = at /\ nodes' = nodes
  BY DEF KeyKnown, tree, nodes
<1>3. TreeInv(h, B)'
  BY <1>1, <1>2 DEF TreeInv
<1>4. SetupInv'
  BY <1>2 DEF AvlInv, SetupInv
<1> QED
  BY <1>3, <1>4 DEF AvlInv

\* The side on which the search goes on.
LEMMA SearchSide ==
  ASSUME SetupInv, phase = "insert", table[new] # table[at]
  PROVE  SideOf(table[new], at) \in Side /\ OnSide(table, SideOf(table[new], at), new, at)
<1>1. table[new] \in Int /\ table[at] \in Int
  BY DEF SetupInv
<1> QED
  BY <1>1 DEF SideOf, Side, OnSide

\* The way of the new character goes through the child on its side.
LEMMA GoDownKeeps ==
  ASSUME AvlInv, GoDown
  PROVE  AvlInv'
<1>1. PICK h, B : TreeInv(h, B)
  BY DEF AvlInv
<1>2. /\ phase = "insert" /\ phase' = "insert" /\ table[new] # table[at]
      /\ table' = table /\ next' = next /\ root' = root /\ link' = link
      /\ parent' = parent /\ balance' = balance /\ new' = new /\ nodes' = nodes
      /\ at' = link[at][SideOf(table[new], at)] /\ at' # NIL
  BY DEF GoDown, tree, nodes
<1> DEFINE s == SideOf(table[new], at)
<1>3. s \in Side /\ OnSide(table, s, new, at)
  BY <1>2, SearchSide DEF AvlInv
<1> HIDE DEF s
<1>4. at \in nodes /\ Shape(table, nodes, root, link, parent, B) /\ OnTheWay(B)
  BY <1>1, <1>2 DEF AvlInv, SetupInv, TreeInv
<1>5. at' = link[at][s] /\ at' \in nodes /\ parent[at'] = at
  BY <1>2, <1>3, <1>4 DEF Shape, s
<1>6. ASSUME NEW n \in nodes, NEW side \in Side, at' \in B[link[n][side]]
      PROVE  OnSide(table, side, new, n)
  <2>1. link[n][side] \in nodes
    BY <1>4, <1>6 DEF Shape
  <2>2. CASE at' = link[n][side]
    <3>1. n = at /\ side = s
      <4>1. link[at][s] = link[n][side] /\ link[at][s] # NIL
        BY <1>2, <1>5, <2>2
      <4> QED
        BY <1>3, <1>4, <4>1, OneLink
    <3> QED
      BY <1>3, <3>1
  <2>3. CASE at' # link[n][side]
    <3>1. parent[at'] \in B[link[n][side]]
      BY <1>4, <1>5, <1>6, <2>1, <2>3 DEF Shape
    <3> QED
      BY <1>4, <1>5, <3>1 DEF OnTheWay
  <2> QED
    BY <2>2, <2>3
<1>7. OnTheWay(B)'
  BY <1>2, <1>6 DEF OnTheWay
<1>8. TreeInv(h, B)'
  BY <1>1, <1>2, <1>7 DEF TreeInv
<1>9. SetupInv'
  BY <1>2, <1>5 DEF AvlInv, SetupInv
<1> QED
  BY <1>8, <1>9 DEF AvlInv

\* The new leaf is on its side of every node above it, and has not been noted.
LEMMA AttachKeeps ==
  ASSUME AvlInv, Attach
  PROVE  AvlInv'
<1>1. PICK h, B : TreeInv(h, B)
  BY DEF AvlInv
<1> DEFINE s == SideOf(table[new], at)
<1>2. /\ phase = "insert" /\ phase' = "retrace" /\ table[new] # table[at]
      /\ table' = table /\ next' = next /\ root' = root /\ new' = new
      /\ at' = new /\ link[at][s] = NIL
      /\ parent' = Grown(parent, new, at) /\ balance' = Grown(balance, new, 0)
      /\ link' = [Grown(link, new, NoChildren) EXCEPT ![at] = [@ EXCEPT ![s] = new]]
  BY DEF Attach
<1>3. s \in Side /\ OnSide(table, s, new, at)
  BY <1>2, SearchSide DEF AvlInv
<1> HIDE DEF s
<1>4. /\ at \in nodes /\ new \notin nodes /\ new \in DOMAIN table /\ new # NIL
      /\ table[new] \in Int /\ NIL \notin nodes
      /\ Shape(table, nodes, root, link, parent, B)
      /\ OnTheWay(B) /\ Heights(nodes, link, balance, h, NIL)
  BY <1>1, <1>2 DEF AvlInv, SetupInv, TreeInv, NIL
<1> PICK B2, h2 : B2 = GrownBelow(B, at, new) /\ h2 = Grown(h, new, 1)
  OBVIOUS
<1> DEFINE N2 == nodes \cup {new}
<1>5. \A m \in nodes, e \in Side : at \in B[link[m][e]] => OnSide(table, e, new, m)
  BY <1>4 DEF OnTheWay
<1>6. Shape(table, N2, root, link', parent', B2)
  <2> DEFINE l2 == link'
             p2 == parent'
  <2>1. /\ l2 = [Grown(link, new, NoChildren) EXCEPT ![at] = [@ EXCEPT ![s] = new]]
        /\ p2 = Grown(parent, new, at)
    BY <1>2
  <2> HIDE DEF l2, p2
  <2>2. Shape(table, N2, root, l2, p2, B2)
    BY <1>2, <1>3, <1>4, <1>5, <2>1, AttachKeepsShape
  <2> QED
    BY <2>2 DEF l2, p2
<1>7. Heights(N2, link', balance', h2, new) /\ h2[new] = 1
  <2>1. link \in [nodes -> [Side -> nodes \cup {NIL}]]
    BY <1>4 DEF Shape
  <2> DEFINE g == Grown(link, new, NoChildren)
  <2>2. /\ g[new] = NoChildren /\ \A m \in nodes : g[m] = link[m]
        /\ g \in [N2 -> [Side -> N2 \cup {NIL}]] /\ at # new
    BY <1>4, <2>1 DEF Grown, NoChildren, nodes
  <2>3. link' = [g EXCEPT ![at] = [g[at] EXCEPT ![s] = new]]
    BY <1>2
  <2> HIDE DEF g
  <2>4. \A e \in Side : link'[new][e] = NIL
    BY <1>4, <2>2, <2>3 DEF NoChildren
  <2>5. \A m \in nodes, e \in Side :
          link'[m][e] = IF m = at /\ e = s THEN new ELSE link[m][e]
    BY <1>4, <2>1, <2>2, <2>3
  <2> DEFINE l2 == link'
             b2 == balance'
  <2> HIDE DEF l2, b2
  <2>6. /\ \A e \in Side : l2[new][e] = NIL
        /\ \A m \in nodes, e \in Side : l2[m][e] = IF m = at /\ e = s THEN new ELSE link[m][e]
        /\ b2 = Grown(balance, new, 0) /\ h2 = Grown(h, new, 1)
    BY <1>2, <2>4, <2>5 DEF l2, b2
  <2>7. Heights(N2, l2, b2, h2, new) /\ h2[new] = 1
    BY <1>2, <1>3, <1>4, <2>1, <2>6, AttachKeepsHeights
  <2> QED
    BY <2>7 DEF l2, b2
<1>8. nodes' = N2
  BY <1>6 DEF Shape, nodes
<1>9. TreeInv(h2, B2)'
  BY <1>2, <1>6, <1>7, <1>8 DEF TreeInv
<1>10. SetupInv'
  BY <1>2, <1>4, <1>8 DEF AvlInv, SetupInv
<1> QED
  BY <1>9, <1>10 DEF AvlInv

-----------------------------------------------------------------------------
(* retrace *)

\* Where retrace is in the tree.
LEMMA RetraceFacts ==
  ASSUME SetupInv, NEW h, NEW B, TreeInv(h, B), NEW x, NEW side, Retracing(x, side)
  PROVE  /\ at \in nodes /\ x \in nodes /\ side \in Side /\ link[x][side] = at
         /\ Shape(table, nodes, root, link, parent, B)
         /\ Heights(nodes, link, balance, h, at)
         /\ balance[at] = 0 => h[at] = 1
         /\ phase = "retrace" /\ table' = table /\ next' = next /\ new' = new
<1>1. /\ phase = "retrace" /\ x = parent[at] /\ x # NIL /\ side = SideOfNode(x, at)
      /\ table' = table /\ next' = next /\ new' = new
  BY DEF Retracing
<1>2. /\ at \in nodes /\ Shape(table, nodes, root, link, parent, B)
      /\ Heights(nodes, link, balance, h, at) /\ (balance[at] = 0 => h[at] = 1)
  BY <1>1 DEF SetupInv, TreeInv
<1>3. x \in nodes /\ \E e \in Side : link[x][e] = at
  BY <1>1, <1>2 DEF Shape
<1> QED
  BY <1>1, <1>2, <1>3 DEF SideOfNode, Side

\* There is nobody above the root to note its height.
LEMMA TopReachedKeeps ==
  ASSUME AvlInv, TopReached
  PROVE  AvlInv'
<1>1. PICK h, B : TreeInv(h, B)
  BY DEF AvlInv
<1>2. /\ phase = "retrace" /\ phase' = "next" /\ parent[at] = NIL
      /\ table' = table /\ next' = next /\ root' = root /\ link' = link
      /\ parent' = parent /\ balance' = balance /\ new' = new /\ at' = at /\ nodes' = nodes
  BY DEF TopReached, tree, nodes
<1>3. /\ at \in nodes /\ Shape(table, nodes, root, link, parent, B)
      /\ Heights(nodes, link, balance, h, at)
  BY <1>1, <1>2 DEF AvlInv, SetupInv, TreeInv
<1>4. at = root /\ at # NIL
  BY <1>2, <1>3 DEF Shape
<1>5. \A n \in nodes, e \in Side : link[n][e] # at
  BY <1>3, <1>4, ShapeFacts
<1>6. Heights(nodes, link, balance, h, NIL)
  <2>1. \A n \in nodes, e \in Side : Noted(h, NIL, link[n][e]) = Noted(h, at, link[n][e])
    BY <1>5 DEF Noted
  <2> QED
    BY <1>3, <2>1, SameLevel DEF Heights
<1>7. TreeInv(h, B)'
  BY <1>2, <1>3, <1>6 DEF TreeInv
<1>8. SetupInv'
  BY <1>2 DEF AvlInv, SetupInv
<1> QED
  BY <1>7, <1>8 DEF AvlInv

\* x is as high as before.
LEMMA AbsorbKeeps ==
  ASSUME AvlInv, NEW x, NEW side, Absorb(x, side)
  PROVE  AvlInv'
<1>1. PICK h, B : TreeInv(h, B)
  BY DEF AvlInv
<1>2. /\ Retracing(x, side) /\ balance[x] = -Sign(side)
      /\ balance' = [balance EXCEPT ![x] = 0] /\ phase' = "next"
      /\ root' = root /\ link' = link /\ parent' = parent /\ at' = at /\ nodes' = nodes
  BY DEF Absorb, nodes
<1>3. /\ at \in nodes /\ x \in nodes /\ side \in Side /\ link[x][side] = at
      /\ Shape(table, nodes, root, link, parent, B)
      /\ Heights(nodes, link, balance, h, at)
      /\ phase = "retrace" /\ table' = table /\ next' = next /\ new' = new
  BY <1>1, <1>2, RetraceFacts DEF AvlInv
<1>4. /\ link \in [nodes -> [Side -> nodes \cup {NIL}]] /\ NIL \notin nodes /\ at # NIL
      /\ \A n \in nodes, e \in Side : link[n][e] \in nodes \cup {NIL}
      /\ h \in [nodes \cup {NIL} -> Nat]
  BY <1>3 DEF Shape, Heights
<1> PICK b2 : b2 = balance'
  OBVIOUS
<1>5. /\ b2 \in [nodes -> {-1, 0, 1}]
      /\ \A n \in nodes : b2[n] = IF n = x THEN 0 ELSE balance[n]
  BY <1>2, <1>3 DEF Heights
<1>6. \A n \in nodes, e \in Side : link[n][e] = at => n = x /\ e = side
  BY <1>3, <1>4, OneLink
<1>7. \A n \in nodes \ {x} : \A e \in Side :
        Noted(h, NIL, link[n][e]) = Noted(h, at, link[n][e])
  BY <1>6 DEF Noted
<1>8. Level(link, b2, h, NIL, x)
  <2> DEFINE i == Noted(h, at, link[x][side])
             j == Noted(h, at, link[x][Opposite(side)])
             k == Noted(h, NIL, link[x][side])
             m == Noted(h, NIL, link[x][Opposite(side)])
  <2>1. i \in Nat /\ j \in Nat /\ j = i + 1 /\ h[x] = 1 + j
    BY <1>2, <1>3, <1>4, Sided
  <2>2. Opposite(side) \in Side /\ Opposite(side) # side
    BY <1>3 DEF Side, Opposite
  <2>3. link[x][Opposite(side)] # at
    BY <1>3, <1>6, <2>2
  <2>4. k = i + 1 /\ m = j
    BY <1>3, <1>4, <2>3 DEF Noted
  <2> HIDE DEF i, j, k, m
  <2>5. /\ k \in Nat /\ m \in Nat /\ h[x] = 1 + Higher(k, m)
        /\ b2[x] = IF side = "right" THEN k - m ELSE m - k
    BY <1>3, <1>5, <2>1, <2>4 DEF Higher
  <2> QED
    BY <1>3, <2>5, Balances DEF k, m
<1>9. Heights(nodes, link, b2, h, NIL)
  <2>1. h[NIL] = 0 /\ \A n \in nodes : h[n] > 0
    BY <1>3 DEF Heights
  <2>2. ASSUME NEW n \in nodes, n # x PROVE Level(link, b2, h, NIL, n)
    <3>1. Level(link, balance, h, at, n) /\ b2[n] = balance[n]
      BY <1>3, <1>5, <2>2 DEF Heights
    <3> QED
      BY <1>7, <2>2, <3>1, SameLevel
  <2> QED
    BY <1>4, <1>5, <1>8, <2>1, <2>2 DEF Heights
<1>10. TreeInv(h, B)'
  BY <1>2, <1>3, <1>9 DEF TreeInv
<1>11. SetupInv'
  BY <1>2, <1>3 DEF AvlInv, SetupInv
<1> QED
  BY <1>10, <1>11 DEF AvlInv

\* x is now the one that has grown and is not noted.
LEMMA ClimbKeeps ==
  ASSUME AvlInv, NEW x, NEW side, Climb(x, side)
  PROVE  AvlInv'
<1>1. PICK h, B : TreeInv(h, B)
  BY DEF AvlInv
<1>2. /\ Retracing(x, side) /\ balance[x] = 0
      /\ balance' = [balance EXCEPT ![x] = Sign(side)] /\ phase' = phase
      /\ root' = root /\ link' = link /\ parent' = parent /\ at' = x /\ nodes' = nodes
  BY DEF Climb, nodes
<1>3. /\ at \in nodes /\ x \in nodes /\ side \in Side /\ link[x][side] = at
      /\ Shape(table, nodes, root, link, parent, B)
      /\ Heights(nodes, link, balance, h, at)
      /\ phase = "retrace" /\ table' = table /\ next' = next /\ new' = new
  BY <1>1, <1>2, RetraceFacts DEF AvlInv
<1>4. /\ link \in [nodes -> [Side -> nodes \cup {NIL}]] /\ NIL \notin nodes /\ at # NIL
      /\ \A n \in nodes, e \in Side : link[n][e] \in nodes \cup {NIL}
      /\ h \in [nodes \cup {NIL} -> Nat]
  BY <1>3 DEF Shape, Heights
<1> PICK b2, h2 : b2 = balance' /\ h2 = [h EXCEPT ![x] = @ + 1]
  OBVIOUS
<1>5. /\ b2 \in [nodes -> {-1, 0, 1}]
      /\ \A n \in nodes : b2[n] = IF n = x THEN Sign(side) ELSE balance[n]
      /\ b2[x] # 0
  BY <1>2, <1>3 DEF Heights, Sign
<1>6. /\ h2 \in [nodes \cup {NIL} -> Nat]
      /\ \A n \in nodes \cup {NIL} : h2[n] = IF n = x THEN h[x] + 1 ELSE h[n]
      /\ h2[NIL] = 0 /\ \A n \in nodes : h2[n] > 0
  BY <1>3, <1>4 DEF Heights
<1>7. \A n \in nodes, e \in Side : link[n][e] = at => n = x /\ e = side
  BY <1>3, <1>4, OneLink
<1>8. \A e \in Side : link[x][e] # x
  BY <1>3, <1>4, ShapeFacts
<1>9. \A n \in nodes \ {x} : \A e \in Side :
        Noted(h2, x, link[n][e]) = Noted(h, at, link[n][e])
  <2> TAKE n \in nodes \ {x}
  <2> TAKE e \in Side
  <2>1. link[n][e] # at /\ link[n][e] \in nodes \cup {NIL}
    BY <1>4, <1>7
  <2>2. CASE link[n][e] = x
    <3>1. h[x] \in Nat /\ h2[x] = h[x] + 1
      BY <1>3, <1>4, <1>6
    <3>2. Noted(h2, x, x) = h2[x] - 1 /\ Noted(h, at, x) = h[x]
      BY <1>3, <1>4, <2>1, <2>2 DEF Noted
    <3> QED
      BY <2>2, <3>1, <3>2
  <2>3. CASE link[n][e] # x
    BY <1>6, <2>1, <2>3 DEF Noted
  <2> QED
    BY <2>2, <2>3
<1>10. Level(link, b2, h2, x, x)
  <2> DEFINE i == Noted(h, at, link[x][side])
             j == Noted(h, at, link[x][Opposite(side)])
             k == Noted(h2, x, link[x][side])
             m == Noted(h2, x, link[x][Opposite(side)])
  <2>1. i \in Nat /\ j \in Nat /\ i = j /\ h[x] = 1 + i
    BY <1>2, <1>3, <1>4, Sided
  <2>2. Opposite(side) \in Side /\ Opposite(side) # side
    BY <1>3 DEF Side, Opposite
  <2>3. link[x][Opposite(side)] # at
    BY <1>3, <1>7, <2>2
  <2>4. k = i + 1
    BY <1>3, <1>4, <1>6, <1>8 DEF Noted
  <2>5. m = j
    BY <1>3, <1>4, <1>6, <1>8, <2>2, <2>3 DEF Noted
  <2> HIDE DEF i, j, k, m
  <2>6. /\ k \in Nat /\ m \in Nat /\ h2[x] = 1 + Higher(k, m)
        /\ b2[x] = IF side = "right" THEN k - m ELSE m - k
    BY <1>3, <1>5, <1>6, <2>1, <2>4, <2>5 DEF Higher, Sign, Side
  <2> QED
    BY <1>3, <2>6, Balances DEF k, m
<1>11. Heights(nodes, link, b2, h2, x)
  <2>1. ASSUME NEW n \in nodes, n # x PROVE Level(link, b2, h2, x, n)
    <3>1. Level(link, balance, h, at, n) /\ b2[n] = balance[n] /\ h2[n] = h[n]
      BY <1>3, <1>5, <1>6, <2>1 DEF Heights
    <3>2. \A e \in Side : Noted(h2, x, link[n][e]) = Noted(h, at, link[n][e])
      BY <1>9, <2>1
    <3> QED
      BY <3>1, <3>2 DEF Level, Side
  <2> QED
    BY <1>5, <1>6, <1>10, <2>1 DEF Heights
<1>12. TreeInv(h2, B)'
  BY <1>2, <1>3, <1>5, <1>11 DEF TreeInv
<1>13. SetupInv'
  BY <1>2, <1>3 DEF AvlInv, SetupInv
<1> QED
  BY <1>12, <1>13 DEF AvlInv

\* Links, or parents, that are the same for every node are the same.
LEMMA SameLinks ==
  ASSUME NEW N, NEW V, NEW f \in [N -> [Side -> V]], NEW g \in [N -> [Side -> V]],
         \A n \in N, e \in Side : f[n][e] = g[n][e]
  PROVE  f = g
<1>1. \A n \in N : f[n] = g[n]
  <2> TAKE n \in N
  <2>1. f[n] \in [Side -> V] /\ g[n] \in [Side -> V] /\ \A e \in Side : f[n][e] = g[n][e]
    OBVIOUS
  <2> QED
    BY <2>1
<1> QED
  BY <1>1

\* What LinkTop does: top gets the parent of x, and is linked where x was.
LEMMA TopIsLinked ==
  ASSUME NEW B, Shape(table, nodes, root, link, parent, B), NEW x \in nodes, NEW top \in nodes,
         NEW l, l \in [nodes -> [Side -> nodes \cup {NIL}]],
         \A n \in nodes, e, f \in Side : link[n][e] = x => l[n][f] = link[n][f],
         NEW p, p \in [nodes -> nodes \cup {NIL}], LinkTop(l, p, x, top)
  PROVE  /\ link' \in [nodes -> [Side -> nodes \cup {NIL}]]
         /\ \A n \in nodes, e \in Side :
              link'[n][e] = IF link[n][e] = x THEN top ELSE l[n][e]
         /\ parent' \in [nodes -> nodes \cup {NIL}]
         /\ \A n \in nodes : parent'[n] = IF n = top THEN parent[x] ELSE p[n]
         /\ root' = (IF root = x THEN top ELSE root)
<1> DEFINE g == parent[x]
           gside == IF x = l[g]["left"] THEN "left" ELSE "right"
<1>1. /\ parent' = [p EXCEPT ![top] = g]
      /\ g = NIL => root' = top /\ link' = l
      /\ g # NIL => /\ link' = [n \in nodes |-> [s \in Side |->
                                   IF n = g /\ s = gside THEN top ELSE l[n][s]]]
                    /\ root' = root
  BY DEF LinkTop
<1>2. /\ g \in nodes \cup {NIL} /\ NIL \notin nodes
      /\ IF x = root THEN g = NIL ELSE g \in nodes /\ \E e \in Side : link[g][e] = x
  BY DEF Shape
<1>3. parent' \in [nodes -> nodes \cup {NIL}]
      /\ \A n \in nodes : parent'[n] = IF n = top THEN parent[x] ELSE p[n]
  BY <1>1, <1>2
<1>4. CASE x = root
  <2>1. \A n \in nodes, e \in Side : link[n][e] # x
    BY <1>2, <1>4, ShapeFacts
  <2> QED
    BY <1>1, <1>2, <1>3, <1>4, <2>1
<1>5. CASE x # root
  <2>1. g \in nodes /\ gside \in Side /\ link[g][gside] = x /\ g # NIL
    BY <1>2, <1>5 DEF Side
  <2>2. \A n \in nodes, e \in Side : link[n][e] = x <=> n = g /\ e = gside
    BY <1>2, <2>1, OneLink
  <2> HIDE DEF g, gside
  <2>3. /\ link' \in [nodes -> [Side -> nodes \cup {NIL}]]
        /\ \A n \in nodes, e \in Side :
             link'[n][e] = IF n = g /\ e = gside THEN top ELSE l[n][e]
    BY <1>1, <2>1
  <2> QED
    BY <1>1, <1>3, <1>5, <2>1, <2>2, <2>3
<1> QED
  BY <1>4, <1>5

\* z is as high as x was, and x one less.  That z is in balance, what a
\* comment of retrace denies (avl.c:66), would need a subtree of negative height.
LEMMA RotateOnceKeeps ==
  ASSUME AvlInv, NEW x, NEW side, RotateOnce(x, side)
  PROVE  AvlInv'
<1>1. PICK h, B : TreeInv(h, B)
  BY DEF AvlInv
<1> DEFINE o == Opposite(side)
           t == link[at][o]
           u == link[x][o]
           c == link[at][side]
           links == RotateLinks(link, o, x, at)
           parents == RotateParents(parent, t, x, at)
<1>2. /\ Retracing(x, side) /\ balance[x] = Sign(side) /\ balance[at] # -Sign(side)
      /\ LinkTop(links, parents, x, at)
      /\ balance' = [balance EXCEPT ![x] = 0, ![at] = 0] /\ phase' = "next" /\ at' = at
  BY DEF RotateOnce
<1>3. /\ at \in nodes /\ x \in nodes /\ side \in Side /\ link[x][side] = at
      /\ Shape(table, nodes, root, link, parent, B)
      /\ Heights(nodes, link, balance, h, at) /\ (balance[at] = 0 => h[at] = 1)
      /\ phase = "retrace" /\ table' = table /\ next' = next /\ new' = new
  BY <1>1, <1>2, RetraceFacts DEF AvlInv
<1>4. /\ link \in [nodes -> [Side -> nodes \cup {NIL}]] /\ NIL \notin nodes /\ at # NIL
      /\ parent \in [nodes -> nodes \cup {NIL}]
      /\ \A n \in nodes, e \in Side : link[n][e] \in nodes \cup {NIL}
      /\ h \in [nodes \cup {NIL} -> Nat] /\ h[NIL] = 0
  BY <1>3 DEF Shape, Heights
<1>5. /\ o \in Side /\ o # side /\ Opposite(o) = side /\ \A e \in Side : e = side \/ e = o
      /\ Sign(side) # -Sign(side) /\ Sign(side) # 0
  BY <1>3 DEF Side, Opposite, Sign
<1>6. /\ t \in nodes \cup {NIL} /\ u \in nodes \cup {NIL} /\ c \in nodes \cup {NIL}
      /\ x # at /\ t # at /\ c # at /\ u # x /\ u # at
  BY <1>3, <1>4, <1>5, ShapeFacts
<1>7. /\ \A n \in nodes, e \in Side : link[n][e] = at => n = x /\ e = side
      /\ parent[at] = x /\ t # x /\ c # x
  <2>1. \A n \in nodes, e \in Side : link[n][e] = at => n = x /\ e = side
    BY <1>3, <1>4, OneLink
  <2>2. parent[at] = x
    BY <1>3, <1>4 DEF Shape
  <2>3. ASSUME NEW e \in Side, link[at][e] = x PROVE FALSE
    <3>1. parent[x] = at /\ x # NIL
      BY <1>3, <1>4, <2>3 DEF Shape
    <3>2. x \in B[at]
      BY <1>3, <2>3, <3>1, ShapeFacts
    <3>3. at \in B[x] /\ x \notin B[at]
      BY <1>3, <1>4, ShapeFacts
    <3> QED
      BY <3>2, <3>3
  <2> QED
    BY <1>3, <1>5, <2>1, <2>2, <2>3
<1> HIDE DEF o, t, u, c
<1>8. /\ links \in [nodes -> [Side -> nodes \cup {NIL}]]
      /\ \A n \in nodes, e \in Side :
           links[n][e] = IF n = x /\ e = side THEN t ELSE IF n = at /\ e = o THEN x
                         ELSE link[n][e]
  BY <1>3, <1>4, <1>5, <1>6 DEF RotateLinks, nodes, t
<1>9. /\ parents \in [nodes -> nodes \cup {NIL}]
      /\ \A n \in nodes : parents[n] = IF n = x THEN at ELSE IF n = t THEN x ELSE parent[n]
  BY <1>3, <1>4 DEF RotateParents
<1> HIDE DEF links, parents
<1>10. /\ link' \in [nodes -> [Side -> nodes \cup {NIL}]]
       /\ \A n \in nodes, e \in Side :
            link'[n][e] = IF link[n][e] = x THEN at ELSE links[n][e]
       /\ parent' \in [nodes -> nodes \cup {NIL}]
       /\ \A n \in nodes : parent'[n] = IF n = at THEN parent[x] ELSE parents[n]
       /\ root' = (IF root = x THEN at ELSE root)
  <2>1. \A n \in nodes, e, f \in Side : link[n][e] = x => links[n][f] = link[n][f]
    <3>1. \A n \in nodes, e \in Side : link[n][e] = x => n # x /\ n # at
      BY <1>3, <1>4, <1>5, <1>7, ShapeFacts DEF t, c
    <3> QED
      BY <1>8, <3>1
  <2> QED
    BY <1>2, <1>3, <1>8, <1>9, <2>1, TopIsLinked
<1> PICK l2, p2, b2, r2 : l2 = link' /\ p2 = parent' /\ b2 = balance' /\ r2 = root'
  OBVIOUS
<1>11. \A n \in nodes, e \in Side :
         l2[n][e] = IF n = x /\ e = side THEN t ELSE IF n = at /\ e = o THEN x
                    ELSE IF link[n][e] = x THEN at ELSE link[n][e]
  <2>1. link[x][side] # x /\ link[at][o] # x
    BY <1>3, <1>6, <1>7 DEF t
  <2> QED
    BY <1>8, <1>10, <2>1
<1>12. l2 = Lifted(link, side, x, at)
  <2> DEFINE m2 == Lifted(link, side, x, at)
  <2>1. /\ m2 \in [nodes -> [Side -> nodes \cup {NIL}]]
        /\ \A n \in nodes, e \in Side :
             m2[n][e] = IF n = x /\ e = side THEN t ELSE IF n = at /\ e = o THEN x
                        ELSE IF link[n][e] = x THEN at ELSE link[n][e]
    BY <1>3, <1>4, <1>5, <1>6 DEF Lifted, nodes, t, o
  <2> HIDE DEF m2
  <2>2. l2 = m2
    BY <1>10, <1>11, <2>1, SameLinks
  <2> QED
    BY <2>2 DEF m2
<1>13. p2 = LiftedParents(parent, t, x, at)
  BY <1>4, <1>6, <1>7, <1>9, <1>10 DEF LiftedParents
<1> PICK B2, h2 : B2 = LiftedBelow(B, u, t, x, at) /\ h2 = [h EXCEPT ![x] = @ - 1]
  OBVIOUS
<1>14. Shape(table, nodes, r2, l2, p2, B2)
  BY <1>3, <1>10, <1>12, <1>13, RotationKeepsShape DEF o, t, u
<1>15. /\ h[x] = h[at] /\ h[x] = h[c] + 1 /\ h[c] = h[t] + 1 /\ h[u] = h[t]
       /\ h[t] \in Nat /\ h[c] \in Nat
  <2> DEFINE i == Noted(h, at, link[x][side])
             j == Noted(h, at, link[x][o])
             k == Noted(h, at, link[at][side])
             m == Noted(h, at, link[at][o])
  <2>1. i \in Nat /\ j \in Nat /\ i = j + 1 /\ h[x] = 1 + i
    BY <1>2, <1>3, <1>4, Sided DEF o
  <2>2. /\ k \in Nat /\ m \in Nat /\ (balance[at] = Sign(side) => k = m + 1 /\ h[at] = 1 + k)
        /\ balance[at] = 0 \/ balance[at] = Sign(side)
    BY <1>2, <1>3, <1>4, Sided DEF o
  <2>3. i = h[at] - 1 /\ j = h[u] /\ k = h[c] /\ m = h[t]
    BY <1>3, <1>4, <1>6 DEF Noted, u, c, t
  <2> HIDE DEF i, j, k, m
  <2>4. h[at] \in Nat /\ h[u] \in Nat
    BY <1>3, <1>4, <1>6
  <2>5. balance[at] # 0
    BY <1>3, <2>1, <2>3, <2>4
  <2> QED
    BY <2>1, <2>2, <2>3, <2>4, <2>5
<1>16. /\ h2 \in [nodes \cup {NIL} -> Nat]
       /\ \A n \in nodes \cup {NIL} : h2[n] = IF n = x THEN h[x] - 1 ELSE h[n]
       /\ h2[NIL] = 0 /\ \A n \in nodes : h2[n] > 0
  <2>1. \A n \in nodes : h[n] > 0
    BY <1>3 DEF Heights
  <2> QED
    BY <1>3, <1>4, <1>15, <2>1
<1>17. /\ b2 \in [nodes -> {-1, 0, 1}]
       /\ \A n \in nodes : b2[n] = IF n \in {x, at} THEN 0 ELSE balance[n]
  BY <1>2, <1>3 DEF Heights
<1>18. \A n \in nodes \cup {NIL} : Noted(h2, NIL, n) = h2[n]
  BY DEF Noted
<1>19. Level(l2, b2, h2, NIL, x)
  <2>1. l2[x][side] = t /\ l2[x][o] = u
    BY <1>3, <1>5, <1>6, <1>11 DEF u
  <2>2. /\ h2[t] = h[t] /\ h2[u] = h[t] /\ h2[x] = 1 + h[t] /\ b2[x] = 0
    BY <1>3, <1>6, <1>7, <1>15, <1>16, <1>17
  <2>3. Noted(h2, NIL, l2[x][side]) = h[t] /\ Noted(h2, NIL, l2[x][o]) = h[t]
    BY <1>6, <1>18, <2>1, <2>2
  <2> QED
    BY <1>3, <1>15, <2>2, <2>3 DEF Level, Side, o, Opposite, Higher
<1>20. Level(l2, b2, h2, NIL, at)
  <2>1. l2[at][side] = c /\ l2[at][o] = x
    BY <1>3, <1>5, <1>6, <1>7, <1>11 DEF c
  <2>2. /\ h2[c] = h[c] /\ h2[x] = h[c] /\ h2[at] = 1 + h[c] /\ b2[at] = 0
    <3>1. h2[c] = h[c] /\ h2[x] = h[x] - 1 /\ h2[at] = h[at]
      BY <1>3, <1>6, <1>7, <1>16
    <3>2. b2[at] = 0
      BY <1>3, <1>17
    <3> QED
      BY <1>15, <3>1, <3>2
  <2>3. Noted(h2, NIL, l2[at][side]) = h[c] /\ Noted(h2, NIL, l2[at][o]) = h[c]
    BY <1>3, <1>6, <1>18, <2>1, <2>2
  <2> QED
    BY <1>3, <1>15, <2>2, <2>3 DEF Level, Side, o, Opposite, Higher
<1>21. ASSUME NEW n \in nodes, n # x, n # at
       PROVE  Level(l2, b2, h2, NIL, n)
  <2>1. Level(link, balance, h, at, n) /\ b2[n] = balance[n] /\ h2[n] = h[n]
    BY <1>3, <1>16, <1>17, <1>21 DEF Heights
  <2>2. ASSUME NEW e \in Side
        PROVE  Noted(h2, NIL, l2[n][e]) = Noted(h, at, link[n][e])
    <3>1. link[n][e] # at /\ link[n][e] \in nodes \cup {NIL}
      BY <1>4, <1>7, <1>21
    <3>2. CASE link[n][e] = x
      BY <1>3, <1>6, <1>11, <1>15, <1>16, <1>21, <3>2 DEF Noted
    <3>3. CASE link[n][e] # x
      <4>1. l2[n][e] = link[n][e]
        BY <1>11, <1>21, <3>3
      <4> QED
        BY <1>16, <3>1, <3>3, <4>1 DEF Noted
    <3> QED
      BY <3>2, <3>3
  <2> QED
    BY <2>1, <2>2 DEF Level, Side
<1>22. Heights(nodes, l2, b2, h2, NIL)
  BY <1>16, <1>17, <1>19, <1>20, <1>21 DEF Heights
<1>23. nodes' = nodes
  BY <1>10 DEF nodes
<1>24. TreeInv(h2, B2)'
  BY <1>2, <1>3, <1>14, <1>22, <1>23 DEF TreeInv
<1>25. SetupInv'
  BY <1>2, <1>3, <1>23 DEF AvlInv, SetupInv
<1> QED
  BY <1>24, <1>25 DEF AvlInv

\* y is as high as x was, and x and z, each with a child of y, one less.
LEMMA RotateTwiceKeeps ==
  ASSUME AvlInv, NEW x, NEW side, RotateTwice(x, side)
  PROVE  AvlInv'
<1>1. PICK h, B : TreeInv(h, B)
  BY DEF AvlInv
<1> DEFINE o == Opposite(side)
           y == link[at][o]
           u == link[x][o]
           c == link[at][side]
           a == link[y][side]
           d == link[y][o]
           links1 == RotateLinks(link, side, at, y)
           parents1 == RotateParents(parent, a, at, y)
           links == RotateLinks(links1, o, x, y)
           parents == RotateParents(parents1, links1[y][o], x, y)
           even == DoubleBalance(balance[y], Sign(side))
<1>2. /\ Retracing(x, side) /\ balance[x] = Sign(side) /\ balance[at] = -Sign(side)
      /\ LinkTop(links, parents, x, y)
      /\ balance' = [balance EXCEPT ![x] = even[1], ![at] = even[2], ![y] = 0]
      /\ phase' = "next" /\ at' = at
  BY DEF RotateTwice
<1>3. /\ at \in nodes /\ x \in nodes /\ side \in Side /\ link[x][side] = at
      /\ Shape(table, nodes, root, link, parent, B)
      /\ Heights(nodes, link, balance, h, at)
      /\ phase = "retrace" /\ table' = table /\ next' = next /\ new' = new
  BY <1>1, <1>2, RetraceFacts DEF AvlInv
<1>4. /\ link \in [nodes -> [Side -> nodes \cup {NIL}]] /\ NIL \notin nodes /\ at # NIL
      /\ parent \in [nodes -> nodes \cup {NIL}]
      /\ \A n \in nodes, e \in Side : link[n][e] \in nodes \cup {NIL}
      /\ h \in [nodes \cup {NIL} -> Nat] /\ h[NIL] = 0
  BY <1>3 DEF Shape, Heights
<1>5. /\ o \in Side /\ o # side /\ Opposite(o) = side /\ \A e \in Side : e = side \/ e = o
      /\ Sign(side) # -Sign(side) /\ Sign(side) # 0 /\ Sign(side) \in {-1, 1}
  BY <1>3 DEF Side, Opposite, Sign
<1>6. /\ y \in nodes \cup {NIL} /\ u \in nodes \cup {NIL} /\ c \in nodes \cup {NIL}
      /\ x # at /\ y # at /\ c # at /\ u # x /\ u # at
  BY <1>3, <1>4, <1>5, ShapeFacts
<1>7. /\ h[x] = h[at] /\ h[at] = h[y] + 1 /\ h[y] = h[c] + 1 /\ h[c] = h[u]
      /\ h[c] \in Nat /\ y # NIL
  <2> DEFINE i == Noted(h, at, link[x][side])
             j == Noted(h, at, link[x][o])
             k == Noted(h, at, link[at][side])
             m == Noted(h, at, link[at][o])
  <2>1. i \in Nat /\ j \in Nat /\ i = j + 1 /\ h[x] = 1 + i
    BY <1>2, <1>3, <1>4, Sided
  <2>2. k \in Nat /\ m \in Nat /\ m = k + 1 /\ h[at] = 1 + m
    BY <1>2, <1>3, <1>4, Sided
  <2>3. i = h[at] - 1 /\ j = h[u] /\ k = h[c] /\ m = h[y]
    BY <1>3, <1>4, <1>6 DEF Noted
  <2> HIDE DEF i, j, k, m, o, u, c, y
  <2>4. h[at] \in Nat /\ h[u] \in Nat
    BY <1>3, <1>4, <1>6
  <2>5. h[x] = h[at] /\ h[at] = h[y] + 1 /\ h[y] = h[c] + 1 /\ h[c] = h[u] /\ h[c] \in Nat
    BY <2>1, <2>2, <2>3, <2>4
  <2>6. h[y] # h[NIL]
    BY <1>4, <2>5
  <2> QED
    BY <2>5, <2>6
<1>8. y \in nodes
  BY <1>6, <1>7
<1>9. /\ a \in nodes \cup {NIL} /\ d \in nodes \cup {NIL} /\ a # y /\ d # y
      /\ \A n \in nodes, e \in Side : link[n][e] = at => n = x /\ e = side
      /\ \A n \in nodes, e \in Side : link[n][e] = y => n = at /\ e = o
      /\ parent[at] = x /\ parent[y] = at
  <2>1. a \in nodes \cup {NIL} /\ d \in nodes \cup {NIL} /\ a # y /\ d # y
    BY <1>3, <1>4, <1>5, <1>8, ShapeFacts
  <2>2. \A n \in nodes, e \in Side : link[n][e] = at => n = x /\ e = side
    BY <1>3, <1>4, OneLink
  <2> DEFINE y1 == y
  <2>3. link[at][o] = y1 /\ y1 # NIL /\ y1 = y
    BY <1>7
  <2> HIDE DEF o, y1
  <2>4. \A n \in nodes, e \in Side : link[n][e] = y1 => n = at /\ e = o
    BY <1>3, <1>4, <1>5, <2>3, OneLink
  <2>5. parent[at] = x /\ parent[y1] = at
    BY <1>3, <1>4, <1>5, <2>3 DEF Shape
  <2> QED
    BY <2>1, <2>2, <2>3, <2>4, <2>5
<1>10. /\ y # x /\ c # x /\ a # x /\ d # x /\ a # at /\ d # at /\ u # y /\ c # y
       /\ a # NIL => a # d
  <2>1. at \in B[x] /\ x \notin B[at] /\ \A n \in nodes : n \in B[n]
    <3>1. \A n \in nodes : n \in B[n]
      BY <1>3 DEF Shape
    <3> QED
      BY <1>3, <1>4, <3>1, ShapeFacts
  <2>2. B[at] = {at} \cup B[y] \cup B[c] /\ B[y] = {y} \cup B[a] \cup B[d]
    BY <1>3, <1>5, <1>8, ShapeFacts
  <2>3. \A n \in nodes : n \in {y, c, a, d} => n \in B[at]
    BY <1>8, <2>1, <2>2
  <2>4. a # NIL => a # d
    BY <1>3, <1>8, ShapeFacts
  <2> QED
    BY <1>3, <1>4, <1>5, <1>8, <1>9, <2>1, <2>3, <2>4
<1> HIDE DEF o, y, u, c, a, d
<1>11. /\ links1 \in [nodes -> [Side -> nodes \cup {NIL}]]
       /\ \A n \in nodes, e \in Side :
            links1[n][e] = IF n = at /\ e = o THEN a ELSE IF n = y /\ e = side THEN at
                           ELSE link[n][e]
  BY <1>3, <1>4, <1>5, <1>8, <1>9 DEF RotateLinks, nodes, a, o
<1>12. /\ parents1 \in [nodes -> nodes \cup {NIL}]
       /\ \A n \in nodes : parents1[n] = IF n = at THEN y ELSE IF n = a THEN at ELSE parent[n]
  BY <1>3, <1>4, <1>8 DEF RotateParents
<1> HIDE DEF links1, parents1
<1>13. links1[y][o] = d
  BY <1>5, <1>6, <1>8, <1>11 DEF d
<1>14. /\ links \in [nodes -> [Side -> nodes \cup {NIL}]]
       /\ \A n \in nodes, e \in Side :
            links[n][e] = IF n = x /\ e = side THEN d ELSE IF n = y /\ e = o THEN x
                          ELSE links1[n][e]
  BY <1>3, <1>5, <1>8, <1>9, <1>11, <1>13 DEF RotateLinks
<1>15. /\ parents \in [nodes -> nodes \cup {NIL}]
       /\ \A n \in nodes : parents[n] = IF n = x THEN y ELSE IF n = d THEN x ELSE parents1[n]
  BY <1>3, <1>8, <1>12, <1>13 DEF RotateParents
<1> HIDE DEF links, parents
<1>16. /\ link' \in [nodes -> [Side -> nodes \cup {NIL}]]
       /\ \A n \in nodes, e \in Side :
            link'[n][e] = IF link[n][e] = x THEN y ELSE links[n][e]
       /\ parent' \in [nodes -> nodes \cup {NIL}]
       /\ \A n \in nodes : parent'[n] = IF n = y THEN parent[x] ELSE parents[n]
       /\ root' = (IF root = x THEN y ELSE root)
  <2>1. \A n \in nodes, e, f \in Side : link[n][e] = x => links[n][f] = link[n][f]
    <3>1. \A n \in nodes, e \in Side : link[n][e] = x => n # x /\ n # at /\ n # y
      BY <1>3, <1>4, <1>5, <1>10, ShapeFacts DEF a, c, d, y
    <3> QED
      BY <1>11, <1>14, <3>1
  <2> QED
    BY <1>2, <1>3, <1>8, <1>14, <1>15, <2>1, TopIsLinked
<1> PICK l2, p2, b2, r2 : l2 = link' /\ p2 = parent' /\ b2 = balance' /\ r2 = root'
  OBVIOUS
<1>17. \A n \in nodes, e \in Side :
         l2[n][e] = IF n = x /\ e = side THEN d ELSE IF n = y /\ e = o THEN x
                    ELSE IF n = at /\ e = o THEN a ELSE IF n = y /\ e = side THEN at
                    ELSE IF link[n][e] = x THEN y ELSE link[n][e]
  <2>1. link[x][side] # x /\ link[at][o] # x /\ link[y][side] # x /\ link[y][o] # x
    BY <1>3, <1>6, <1>10 DEF a, d, y
  <2> QED
    BY <1>11, <1>14, <1>16, <2>1
<1> PICK l1, p1, r1, B1, u1 :
      /\ l1 = Lifted(link, o, at, y) /\ p1 = LiftedParents(parent, a, at, y)
      /\ r1 = (IF root = at THEN y ELSE root) /\ B1 = LiftedBelow(B, c, a, at, y)
      /\ u1 = l1[x][o]
  OBVIOUS
<1>18. Shape(table, nodes, r1, l1, p1, B1)
  BY <1>3, <1>5, <1>8, RotationKeepsShape DEF a, c, y
<1>19. /\ l1 \in [nodes -> [Side -> nodes \cup {NIL}]]
       /\ \A n \in nodes, e \in Side :
            l1[n][e] = IF n = at /\ e = o THEN a ELSE IF n = y /\ e = side THEN at
                       ELSE IF link[n][e] = at THEN y ELSE link[n][e]
  BY <1>4, <1>5, <1>8, <1>9, <1>18 DEF Lifted, Shape, nodes, a
<1>20. l1[x][side] = y /\ l1[y][o] = d /\ r1 = root
  <2>1. root # at
    BY <1>3, <1>9 DEF Shape
  <2> QED
    BY <1>3, <1>4, <1>5, <1>6, <1>8, <1>9, <1>10, <1>19, <2>1 DEF d
<1>21. l2 = Lifted(l1, side, x, y)
  <2> DEFINE m2 == Lifted(l1, side, x, y)
  <2>1. DOMAIN l1 = nodes
    BY <1>19
  <2>2. /\ m2 \in [nodes -> [Side -> nodes \cup {NIL}]]
        /\ \A n \in nodes, e \in Side :
             m2[n][e] = IF n = x /\ e = side THEN d ELSE IF n = y /\ e = o THEN x
                        ELSE IF l1[n][e] = x THEN y ELSE l1[n][e]
    BY <1>3, <1>5, <1>8, <1>9, <1>19, <1>20, <2>1 DEF Lifted, o
  <2> HIDE DEF m2
  <2>3. \A n \in nodes, e \in Side : l2[n][e] = m2[n][e]
    <3> TAKE n \in nodes, e \in Side
    <3>1. link[n][e] = at => n = x /\ e = side
      BY <1>9
    <3>2. CASE (n = x /\ e = side) \/ (n = y /\ e = o)
      BY <1>17, <2>2, <3>2
    <3>3. CASE (n = at /\ e = o) \/ (n = y /\ e = side)
      BY <1>3, <1>5, <1>6, <1>10, <1>17, <1>19, <2>2, <3>3
    <3>4. CASE n # y /\ ~(n = x /\ e = side) /\ ~(n = at /\ e = o)
      BY <1>10, <1>17, <1>19, <2>2, <3>1, <3>4
    <3>5. e = side \/ e = o
      BY <1>5
    <3> QED
      BY <3>2, <3>3, <3>4, <3>5
  <2>4. l2 = m2
    BY <1>16, <2>2, <2>3, SameLinks
  <2> QED
    BY <2>4 DEF m2
<1>22. p2 = LiftedParents(p1, d, x, y)
  <2>1. /\ p1 \in [nodes -> nodes \cup {NIL}]
        /\ \A n \in nodes : p1[n] = IF n = at THEN y ELSE IF n = y THEN x
                                    ELSE IF n = a THEN at ELSE parent[n]
    BY <1>3, <1>4, <1>8, <1>9 DEF LiftedParents
  <2>2. \A n \in nodes : p2[n] = IF n = y THEN parent[x] ELSE IF n = x THEN y
                                 ELSE IF n = d THEN x ELSE IF n = at THEN y
                                 ELSE IF n = a THEN at ELSE parent[n]
    BY <1>12, <1>15, <1>16
  <2> QED
    BY <1>3, <1>6, <1>8, <1>9, <1>10, <1>16, <2>1, <2>2 DEF LiftedParents
<1> PICK B2, h2 :
      /\ B2 = LiftedBelow(B1, u1, d, x, y)
      /\ h2 = [n \in nodes \cup {NIL} |->
                 IF n = y THEN h[y] + 1 ELSE IF n \in {x, at} THEN h[n] - 1 ELSE h[n]]
  OBVIOUS
<1>23. Shape(table, nodes, r2, l2, p2, B2)
  BY <1>3, <1>5, <1>8, <1>16, <1>18, <1>20, <1>21, <1>22, RotationKeepsShape DEF o
<1>24. /\ h[a] \in Nat /\ h[d] \in Nat
       /\ balance[y] = 0 => h[a] = h[c] /\ h[d] = h[c]
       /\ balance[y] = Sign(side) => h[a] = h[c] /\ h[c] = h[d] + 1
       /\ balance[y] = -Sign(side) => h[d] = h[c] /\ h[c] = h[a] + 1
       /\ balance[y] \in {0, Sign(side), -Sign(side)}
  <2> DEFINE i == Noted(h, at, link[y][side])
             j == Noted(h, at, link[y][o])
  <2>1. /\ i \in Nat /\ j \in Nat
        /\ balance[y] = 0 => i = j /\ h[y] = 1 + i
        /\ balance[y] = Sign(side) => i = j + 1 /\ h[y] = 1 + i
        /\ balance[y] = -Sign(side) => j = i + 1 /\ h[y] = 1 + j
        /\ balance[y] = 0 \/ balance[y] = Sign(side) \/ balance[y] = -Sign(side)
    BY <1>3, <1>4, <1>8, Sided DEF o
  <2>2. i = h[a] /\ j = h[d]
    BY <1>10 DEF Noted, a, d
  <2> HIDE DEF i, j
  <2> QED
    BY <1>7, <2>1, <2>2
<1>25. /\ h2 \in [nodes \cup {NIL} -> Nat]
       /\ \A n \in nodes \cup {NIL} :
            h2[n] = IF n = y THEN h[y] + 1 ELSE IF n \in {x, at} THEN h[n] - 1 ELSE h[n]
       /\ h2[NIL] = 0 /\ \A n \in nodes : h2[n] > 0
  <2>1. \A n \in nodes : h[n] > 0
    BY <1>3 DEF Heights
  <2>2. h[x] \in Nat /\ h[at] \in Nat /\ h[y] \in Nat /\ h[x] > 1 /\ h[at] > 1
    BY <1>7
  <2>3. ASSUME NEW n \in nodes \cup {NIL} PROVE h2[n] \in Nat /\ (n # NIL => h2[n] > 0)
    BY <1>4, <2>1, <2>2, <2>3
  <2>4. h2[NIL] = 0
    BY <1>3, <1>4, <1>8
  <2> QED
    BY <1>3, <1>4, <2>3, <2>4
<1>26. /\ b2 \in [nodes -> {-1, 0, 1}]
       /\ \A n \in nodes : b2[n] = IF n = y THEN 0 ELSE IF n = at THEN even[2]
                                   ELSE IF n = x THEN even[1] ELSE balance[n]
  <2>1. even[1] \in {-1, 0, 1} /\ even[2] \in {-1, 0, 1}
    BY <1>5 DEF DoubleBalance
  <2> HIDE DEF even
  <2> QED
    BY <1>2, <1>3, <1>6, <1>8, <1>10, <2>1 DEF Heights
<1>27. \A n \in nodes \cup {NIL} : Noted(h2, NIL, n) = h2[n]
  BY DEF Noted
<1>28. /\ h2[y] = h[c] + 2 /\ h2[x] = h[c] + 1 /\ h2[at] = h[c] + 1
       /\ h2[a] = h[a] /\ h2[c] = h[c] /\ h2[d] = h[d] /\ h2[u] = h[c]
  <2>1. h2[y] = h[y] + 1 /\ h2[x] = h[x] - 1 /\ h2[at] = h[at] - 1
    BY <1>3, <1>6, <1>8, <1>10, <1>25
  <2>2. h2[a] = h[a] /\ h2[c] = h[c] /\ h2[d] = h[d] /\ h2[u] = h[u]
    BY <1>6, <1>9, <1>10, <1>25
  <2> QED
    BY <1>7, <2>1, <2>2
<1>29. Level(l2, b2, h2, NIL, x)
  <2>1. l2[x][side] = d /\ l2[x][o] = u
    BY <1>3, <1>5, <1>6, <1>10, <1>17 DEF u
  <2>2. Noted(h2, NIL, l2[x][side]) = h[d] /\ Noted(h2, NIL, l2[x][o]) = h[c]
    BY <1>6, <1>9, <1>27, <1>28, <2>1
  <2>3. b2[x] = IF balance[y] = Sign(side) THEN -Sign(side) ELSE 0
    BY <1>3, <1>5, <1>6, <1>10, <1>24, <1>26 DEF DoubleBalance
  <2>4. CASE side = "left"
    BY <1>7, <1>24, <1>28, <2>2, <2>3, <2>4 DEF Level, Sign, o, Opposite, Higher
  <2>5. CASE side = "right"
    BY <1>7, <1>24, <1>28, <2>2, <2>3, <2>5 DEF Level, Sign, o, Opposite, Higher
  <2> QED
    BY <1>3, <2>4, <2>5 DEF Side
<1>30. Level(l2, b2, h2, NIL, at)
  <2>1. l2[at][side] = c /\ l2[at][o] = a
    BY <1>3, <1>5, <1>6, <1>10, <1>17 DEF c
  <2>2. Noted(h2, NIL, l2[at][side]) = h[c] /\ Noted(h2, NIL, l2[at][o]) = h[a]
    BY <1>6, <1>9, <1>27, <1>28, <2>1
  <2>3. b2[at] = IF balance[y] = -Sign(side) THEN Sign(side) ELSE 0
    BY <1>3, <1>5, <1>6, <1>10, <1>24, <1>26 DEF DoubleBalance
  <2>4. CASE side = "left"
    BY <1>7, <1>24, <1>28, <2>2, <2>3, <2>4 DEF Level, Sign, o, Opposite, Higher
  <2>5. CASE side = "right"
    BY <1>7, <1>24, <1>28, <2>2, <2>3, <2>5 DEF Level, Sign, o, Opposite, Higher
  <2> QED
    BY <1>3, <2>4, <2>5 DEF Side
<1>31. Level(l2, b2, h2, NIL, y)
  <2>1. l2[y][side] = at /\ l2[y][o] = x
    BY <1>3, <1>5, <1>6, <1>8, <1>10, <1>17
  <2>2. Noted(h2, NIL, l2[y][side]) = h[c] + 1 /\ Noted(h2, NIL, l2[y][o]) = h[c] + 1
    BY <1>3, <1>27, <1>28, <2>1
  <2>3. b2[y] = 0
    BY <1>8, <1>26
  <2> QED
    BY <1>3, <1>7, <1>28, <2>2, <2>3 DEF Level, Side, o, Opposite, Higher
<1>32. ASSUME NEW n \in nodes, n # x, n # at, n # y
       PROVE  Level(l2, b2, h2, NIL, n)
  <2>1. Level(link, balance, h, at, n) /\ b2[n] = balance[n] /\ h2[n] = h[n]
    BY <1>3, <1>25, <1>26, <1>32 DEF Heights
  <2>2. ASSUME NEW e \in Side
        PROVE  Noted(h2, NIL, l2[n][e]) = Noted(h, at, link[n][e])
    <3>1. link[n][e] # at /\ link[n][e] # y /\ link[n][e] \in nodes \cup {NIL}
      BY <1>4, <1>9, <1>32
    <3>2. CASE link[n][e] = x
      <4>1. l2[n][e] = y
        BY <1>17, <1>32, <3>2
      <4>2. h2[y] = h[x]
        BY <1>7, <1>28
      <4> QED
        BY <1>6, <1>8, <1>27, <3>2, <4>1, <4>2 DEF Noted
    <3>3. CASE link[n][e] # x
      <4>1. l2[n][e] = link[n][e]
        BY <1>17, <1>32, <3>3
      <4> QED
        BY <1>25, <3>1, <3>3, <4>1 DEF Noted
    <3> QED
      BY <3>2, <3>3
  <2> QED
    BY <2>1, <2>2 DEF Level, Side
<1>33. Heights(nodes, l2, b2, h2, NIL)
  BY <1>25, <1>26, <1>29, <1>30, <1>31, <1>32 DEF Heights
<1>34. nodes' = nodes
  BY <1>16 DEF nodes
<1>35. TreeInv(h2, B2)'
  BY <1>2, <1>3, <1>23, <1>33, <1>34 DEF TreeInv
<1>36. SetupInv'
  BY <1>2, <1>3, <1>34 DEF AvlInv, SetupInv
<1> QED
  BY <1>35, <1>36 DEF AvlInv

\* The invariant of the tree holds in every step of every loop of FbxSetupAVL, insert
\* and retrace.
THEOREM AvlInvariance == AvlSpec => []AvlInv
<1>1. AvlInit => AvlInv
  BY InitAvlInv
<1>2. AvlInv /\ [FbxSetupAVL]_avlvars => AvlInv'
  <2> SUFFICES ASSUME AvlInv, [FbxSetupAVL]_avlvars PROVE AvlInv'
    OBVIOUS
  <2>1. CASE InsertNext
    BY <2>1, InsertNextKeeps
  <2>2. CASE KeyKnown
    BY <2>2, KeyKnownKeeps
  <2>3. CASE GoDown
    BY <2>3, GoDownKeeps
  <2>4. CASE Attach
    BY <2>4, AttachKeeps
  <2>5. CASE TopReached
    BY <2>5, TopReachedKeeps
  <2>6. ASSUME NEW x \in nodes, NEW side \in Side,
               Absorb(x, side) \/ Climb(x, side) \/ RotateOnce(x, side) \/ RotateTwice(x, side)
        PROVE  AvlInv'
    BY <2>6, AbsorbKeeps, ClimbKeeps, RotateOnceKeeps, RotateTwiceKeeps
  <2>7. CASE UNCHANGED avlvars
    BY <2>7 DEF avlvars, tree, AvlInv, SetupInv, TreeInv, OnTheWay, nodes
  <2> QED
    BY <2>1, <2>2, <2>3, <2>4, <2>5, <2>6, <2>7 DEF FbxSetupAVL, retrace
<1> QED
  BY <1>1, <1>2, PTL DEF AvlSpec

-----------------------------------------------------------------------------
(* What the invariant says of the tree *)

\* A node is higher than its children.
LEMMA ChildIsLower ==
  ASSUME NEW N, NIL \notin N, NEW l, l \in [N -> [Side -> N \cup {NIL}]],
         NEW b, NEW h, Heights(N, l, b, h, NIL), NEW n \in N, NEW s \in Side
  PROVE  l[n][s] \in N \cup {NIL} /\ h[l[n][s]] \in Nat /\ h[n] \in Nat /\ h[l[n][s]] < h[n]
<1> DEFINE i == Noted(h, NIL, l[n][s])
           j == Noted(h, NIL, l[n][Opposite(s)])
<1>1. /\ i \in Nat /\ j \in Nat /\ h[n] \in Nat
      /\ b[n] = 0 => i = j /\ h[n] = 1 + i
      /\ b[n] = Sign(s) => i = j + 1 /\ h[n] = 1 + i
      /\ b[n] = -Sign(s) => j = i + 1 /\ h[n] = 1 + j
      /\ b[n] = 0 \/ b[n] = Sign(s) \/ b[n] = -Sign(s)
  BY Sided
<1>2. i = h[l[n][s]] /\ l[n][s] \in N \cup {NIL}
  BY DEF Noted
<1> HIDE DEF i, j
<1>3. i < h[n]
  BY <1>1
<1> QED
  BY <1>1, <1>2, <1>3

\* Two functions on the nodes are the same if they agree on NIL, and on a node
\* whenever they agree on its children.
LEMMA SameBelow ==
  ASSUME NEW N, NIL \notin N, NEW l, l \in [N -> [Side -> N \cup {NIL}]],
         NEW b, NEW h, Heights(N, l, b, h, NIL), NEW f, NEW g, f[NIL] = g[NIL],
         \A n \in N : (\A s \in Side : f[l[n][s]] = g[l[n][s]]) => f[n] = g[n]
  PROVE  \A n \in N \cup {NIL} : f[n] = g[n]
<1> DEFINE Differ == {n \in N : f[n] # g[n]}
           T == {h[n] : n \in Differ}
<1>1. SUFFICES ASSUME Differ # {} PROVE FALSE
  OBVIOUS
<1>2. T \in SUBSET Nat
  BY DEF Heights
<1>3. PICK m \in Differ : \A n \in Differ : h[m] <= h[n]
  <2>1. PICK t \in T : TRUE
    BY <1>1
  <2>2. \E k \in T : \A j \in T : k <= j
    BY <1>2, <2>1, LeastNumber
  <2> QED
    BY <2>2
<1>4. \A s \in Side : l[m][s] \notin Differ
  <2> TAKE s \in Side
  <2>1. h[l[m][s]] \in Nat /\ h[m] \in Nat /\ h[l[m][s]] < h[m]
    BY ChildIsLower
  <2>2. ~(h[m] <= h[l[m][s]])
    BY <2>1
  <2> QED
    BY <1>3, <2>2
<1> QED
  BY <1>3, <1>4

\* The heights of the invariant are the heights, and its sets are what is below.
LEMMA HeightAndBelow ==
  ASSUME NEW h, NEW B, TreeInv(h, B), phase = "next"
  PROVE  \A n \in nodes \cup {NIL} : Height[n] = h[n] /\ Below[n] = B[n]
<1>1. /\ Shape(table, nodes, root, link, parent, B) /\ Heights(nodes, link, balance, h, NIL)
      /\ NIL \notin nodes /\ link \in [nodes -> [Side -> nodes \cup {NIL}]]
      /\ h \in [nodes \cup {NIL} -> Nat] /\ h[NIL] = 0
      /\ B \in [nodes \cup {NIL} -> SUBSET nodes] /\ B[NIL] = {}
  BY DEF TreeInv, Shape, Heights
<1>2. \A n \in nodes : h[n] = 1 + Higher(h[link[n]["left"]], h[link[n]["right"]])
  BY <1>1 DEF Heights, Level, Noted
<1>3. \A n \in nodes : B[n] = {n} \cup B[link[n]["left"]] \cup B[link[n]["right"]]
  BY <1>1 DEF Shape
<1>4. Height = [n \in nodes \cup {NIL} |->
        IF n = NIL THEN 0 ELSE 1 + Higher(Height[link[n]["left"]], Height[link[n]["right"]])]
  <2>1. h = [n \in nodes \cup {NIL} |->
          IF n = NIL THEN 0 ELSE 1 + Higher(h[link[n]["left"]], h[link[n]["right"]])]
    BY <1>1, <1>2
  <2> QED
    BY <2>1 DEF Height
<1>5. Below = [n \in nodes \cup {NIL} |->
        IF n = NIL THEN {} ELSE {n} \cup Below[link[n]["left"]] \cup Below[link[n]["right"]]]
  <2>1. B = [n \in nodes \cup {NIL} |->
          IF n = NIL THEN {} ELSE {n} \cup B[link[n]["left"]] \cup B[link[n]["right"]]]
    BY <1>1, <1>3
  <2> QED
    BY <2>1 DEF Below
<1>9. /\ Heights(nodes, link, balance, h, NIL) /\ NIL \notin nodes
      /\ link \in [nodes -> [Side -> nodes \cup {NIL}]]
  BY <1>1
<1> PICK f, g : f = Height /\ g = Below
  OBVIOUS
<1>6. "left" \in Side /\ "right" \in Side
  BY DEF Side
<1>7. \A n \in nodes \cup {NIL} : f[n] = h[n]
  <2>1. \A n \in nodes : f[n] = 1 + Higher(f[link[n]["left"]], f[link[n]["right"]])
    BY <1>1, <1>4
  <2>2. f[NIL] = h[NIL]
    BY <1>1, <1>4
  <2>3. \A n \in nodes : (\A s \in Side : f[link[n][s]] = h[link[n][s]]) => f[n] = h[n]
    BY <1>2, <1>6, <2>1
  <2> QED
    BY <1>9, <2>2, <2>3, SameBelow
<1>8. \A n \in nodes \cup {NIL} : g[n] = B[n]
  <2>1. \A n \in nodes : g[n] = {n} \cup g[link[n]["left"]] \cup g[link[n]["right"]]
    BY <1>1, <1>5
  <2>2. g[NIL] = B[NIL]
    BY <1>1, <1>5
  <2>3. \A n \in nodes : (\A s \in Side : g[link[n][s]] = B[link[n][s]]) => g[n] = B[n]
    <3> TAKE n \in nodes
    <3> HAVE \A s \in Side : g[link[n][s]] = B[link[n][s]]
    <3>1. g[link[n]["left"]] = B[link[n]["left"]] /\ g[link[n]["right"]] = B[link[n]["right"]]
      BY <1>6
    <3>2. /\ g[n] = {n} \cup g[link[n]["left"]] \cup g[link[n]["right"]]
          /\ B[n] = {n} \cup B[link[n]["left"]] \cup B[link[n]["right"]]
      BY <1>3, <2>1
    <3> QED
      BY <3>1, <3>2, Zenon
  <2> QED
    BY <1>9, <2>2, <2>3, SameBelow
<1> QED
  BY <1>7, <1>8

\* Between two insertions the tree is an AVL tree.
LEMMA TreeIsAvl ==
  ASSUME NEW h, NEW B, TreeInv(h, B), phase = "next"
  PROVE  IsAvlTree
<1>1. /\ Shape(table, nodes, root, link, parent, B) /\ Heights(nodes, link, balance, h, NIL)
      /\ \A n \in nodes, e \in Side : link[n][e] \in nodes \cup {NIL}
      /\ root \in nodes \cup {NIL} /\ B[root] = nodes
      /\ \A n \in nodes \cup {NIL} : Height[n] = h[n] /\ Below[n] = B[n]
  <2>1. \A n \in nodes \cup {NIL} : Height[n] = h[n] /\ Below[n] = B[n]
    BY HeightAndBelow
  <2> QED
    BY <2>1 DEF TreeInv, Shape
<1>2. ASSUME NEW n \in nodes PROVE WellPlaced(n)
  <2>1. /\ link[n]["left"] \in nodes \cup {NIL} /\ link[n]["right"] \in nodes \cup {NIL}
        /\ "left" \in Side /\ "right" \in Side
    BY <1>1 DEF Side
  <2>2. balance[n] = h[link[n]["right"]] - h[link[n]["left"]] /\ balance[n] \in {-1, 0, 1}
    BY <1>1 DEF Heights, Level, Noted
  <2>3. /\ \A m \in B[link[n]["left"]] : table[m] < table[n]
        /\ \A m \in B[link[n]["right"]] : table[m] > table[n]
    <3>1. /\ \A m \in B[link[n]["left"]] : OnSide(table, "left", m, n)
          /\ \A m \in B[link[n]["right"]] : OnSide(table, "right", m, n)
      BY <1>1, <2>1 DEF Shape
    <3> QED
      BY <3>1 DEF OnSide
  <2>4. \A side \in Side : link[n][side] # NIL => parent[link[n][side]] = n
    BY <1>1 DEF Shape
  <2>5. /\ Height[link[n]["left"]] = h[link[n]["left"]]
        /\ Height[link[n]["right"]] = h[link[n]["right"]]
        /\ Below[link[n]["left"]] = B[link[n]["left"]]
        /\ Below[link[n]["right"]] = B[link[n]["right"]]
    BY <1>1, <2>1
  <2> QED
    BY <2>2, <2>3, <2>4, <2>5 DEF WellPlaced
<1>3. root # NIL => parent[root] = NIL
  BY <1>1 DEF Shape
<1> QED
  BY <1>1, <1>2, <1>3 DEF IsAvlTree

\* The search below a node finds a bearer of a character if there is one.
LEMMA SearchFinds ==
  ASSUME SetupInv, NEW h, NEW B, TreeInv(h, B), phase = "next",
         NEW u \in Int, NEW q \in nodes, table[q] = u
  PROVE  Found(u) # NIL /\ table[Found(u)] = u
<1> DEFINE Search[n \in nodes \cup {NIL}] ==
             IF n = NIL THEN NIL
             ELSE IF u = table[n] THEN n
             ELSE Search[link[n][SideOf(u, n)]]
           Bearer(n) == {m \in B[n] : table[m] = u}
           f == [n \in nodes \cup {NIL} |->
                   IF Bearer(n) = {} THEN NIL ELSE CHOOSE m : m \in Bearer(n)]
<1>1. /\ Shape(table, nodes, root, link, parent, B) /\ Heights(nodes, link, balance, h, NIL)
      /\ NIL \notin nodes /\ link \in [nodes -> [Side -> nodes \cup {NIL}]]
      /\ \A n \in nodes, e \in Side : link[n][e] \in nodes \cup {NIL}
      /\ root \in nodes \cup {NIL} /\ B[root] = nodes /\ B[NIL] = {}
      /\ \A n \in nodes \cup {NIL} : B[n] \subseteq nodes
      /\ \A n \in nodes : table[n] \in Int
  BY DEF TreeInv, Shape
<1>2. f[NIL] = NIL /\ DOMAIN f = nodes \cup {NIL}
  BY <1>1
<1>3. ASSUME NEW n \in nodes
      PROVE  f[n] = IF u = table[n] THEN n ELSE f[link[n][SideOf(u, n)]]
  <2>1. B[n] = {n} \cup B[link[n]["left"]] \cup B[link[n]["right"]]
    BY <1>1 DEF Shape
  <2>2. /\ \A m \in B[link[n]["left"]] : table[m] < table[n]
        /\ \A m \in B[link[n]["right"]] : table[m] > table[n]
    <3>1. \A e \in {"left", "right"} : \A m \in B[link[n][e]] : OnSide(table, e, m, n)
      BY <1>1 DEF Shape, Side
    <3> QED
      BY <3>1 DEF OnSide
  <2>3. /\ link[n]["left"] \in nodes \cup {NIL} /\ link[n]["right"] \in nodes \cup {NIL}
        /\ B[link[n]["left"]] \subseteq nodes /\ B[link[n]["right"]] \subseteq nodes
    BY <1>1 DEF Side
  <2>4. CASE u = table[n]
    <3>1. Bearer(n) = {n}
      BY <1>1, <2>1, <2>2, <2>3, <2>4
    <3> HIDE DEF Bearer
    <3>2. f[n] = CHOOSE m : m \in {n}
      BY <3>1
    <3> QED
      BY <2>4, <3>2
  <2>5. CASE u < table[n]
    <3>1. SideOf(u, n) = "left" /\ u # table[n]
      BY <1>1, <2>5 DEF SideOf
    <3>2. Bearer(n) = Bearer(link[n]["left"])
      BY <1>1, <2>1, <2>2, <2>3, <2>5
    <3> HIDE DEF Bearer
    <3> QED
      BY <2>3, <3>1, <3>2
  <2>6. CASE u > table[n]
    <3>1. SideOf(u, n) = "right" /\ u # table[n]
      BY <1>1, <2>6 DEF SideOf
    <3>2. Bearer(n) = Bearer(link[n]["right"])
      BY <1>1, <2>1, <2>2, <2>3, <2>6
    <3> HIDE DEF Bearer
    <3> QED
      BY <2>3, <3>1, <3>2
  <2>7. u = table[n] \/ u < table[n] \/ u > table[n]
    <3>1. table[n] \in Int
      BY <1>1
    <3> HIDE DEF f
    <3> QED
      BY <3>1
  <2> HIDE DEF f
  <2> QED
    BY <2>4, <2>5, <2>6, <2>7
<1>4. f[root] # NIL /\ table[f[root]] = u
  <2>1. q \in Bearer(root)
    BY <1>1
  <2>2. \A m \in Bearer(root) : m # NIL /\ table[m] = u
    BY <1>1
  <2>3. f[root] = CHOOSE m : m \in Bearer(root)
    BY <1>1, <2>1
  <2> HIDE DEF Bearer, f
  <2> QED
    BY <2>1, <2>2, <2>3
<1>5. PICK k : k = f
  OBVIOUS
<1> HIDE DEF f
<1>6. k = [n \in nodes \cup {NIL} |->
        IF n = NIL THEN NIL ELSE IF u = table[n] THEN n ELSE k[link[n][SideOf(u, n)]]]
  <2>1. k = [n \in nodes \cup {NIL} |-> k[n]]
    BY <1>5 DEF f
  <2> QED
    BY <1>2, <1>3, <1>5, <2>1
<1>7. Search = [n \in nodes \cup {NIL} |->
        IF n = NIL THEN NIL ELSE IF u = table[n] THEN n ELSE Search[link[n][SideOf(u, n)]]]
  BY <1>6
<1>8. Found(u) = Search[root]
  BY DEF Found
<1> HIDE DEF Search
<1>9. PICK g : g = Search
  OBVIOUS
<1>10. \A n \in nodes \cup {NIL} : g[n] = k[n]
  <2>1. g[NIL] = k[NIL]
    BY <1>6, <1>7, <1>9
  <2>2. \A n \in nodes : SideOf(u, n) \in Side
    BY DEF SideOf, Side
  <2>3. \A n \in nodes :
          /\ g[n] = IF u = table[n] THEN n ELSE g[link[n][SideOf(u, n)]]
          /\ k[n] = IF u = table[n] THEN n ELSE k[link[n][SideOf(u, n)]]
    <3> TAKE n \in nodes
    <3>1. g[n] = IF u = table[n] THEN n ELSE g[link[n][SideOf(u, n)]]
      BY <1>1, <1>7, <1>9
    <3>2. k[n] = IF u = table[n] THEN n ELSE k[link[n][SideOf(u, n)]]
      BY <1>1, <1>6
    <3> QED
      BY <3>1, <3>2
  <2>4. \A n \in nodes : (\A s \in Side : g[link[n][s]] = k[link[n][s]]) => g[n] = k[n]
    BY <2>2, <2>3
  <2> QED
    BY <1>1, <2>1, <2>4, SameBelow
<1> QED
  BY <1>1, <1>4, <1>5, <1>8, <1>9, <1>10

\* The invariant is what has to be shown.
LEMMA AvlInvBalanced == AvlInv => Balanced
<1> SUFFICES ASSUME AvlInv, phase = "next" 
             PROVE  /\ IsAvlTree
                    /\ \A l \in DOMAIN table \ next :
                         Found(table[l]) # NIL /\ table[Found(table[l])] = table[l]
  BY DEF Balanced
<1>1. PICK h, B : TreeInv(h, B)
  BY DEF AvlInv
<1>2. IsAvlTree
  BY <1>1, TreeIsAvl
<1>3. ASSUME NEW l \in DOMAIN table \ next
      PROVE  Found(table[l]) # NIL /\ table[Found(table[l])] = table[l]
  <2>1. table[l] \in Int /\ \E n \in nodes : table[n] = table[l]
    BY <1>3 DEF AvlInv, SetupInv
  <2> QED
    BY <1>1, <2>1, SearchFinds DEF AvlInv
<1> QED
  BY <1>2, <1>3

\* For any table the tree is an AVL tree after every insertion, and the search finds
\* each character of the table that has been inserted.
THEOREM BalancedHolds == AvlSpec => []Balanced
BY AvlInvariance, AvlInvBalanced, PTL

=============================================================================
