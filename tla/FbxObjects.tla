------------------------------- MODULE FbxObjects -------------------------------
(***************************************************************************)
(* What programs may rely on when they hold a lock, a file or a notify     *)
(* request: freeing it succeeds, once, and after an answer "no disk" a     *)
(* use never succeeds again.  Nothing else is answered.                    *)
(***************************************************************************)
CONSTANTS Object

VARIABLES
  exists,         \* the objects that programs hold
  request,        \* the packet about each object that waits for its answer
  answer          \* the last answer about each object

None == "none"

Ask(o) ==
  /\ o \in exists /\ request[o] = None
  /\ \E op \in {"use", "free"} : request' = [request EXCEPT ![o] = op]
  /\ UNCHANGED <<exists, answer>>

Use(o) ==
  /\ request[o] = "use"
  /\ request' = [request EXCEPT ![o] = None]
  /\ \E a \in {"nodisk", answer[o]} : answer' = [answer EXCEPT ![o] = a]
  /\ UNCHANGED exists

Free(o) ==
  /\ o \in exists /\ request[o] = "free"
  /\ exists' = exists \ {o}
  /\ request' = [request EXCEPT ![o] = None]
  /\ answer' = [answer EXCEPT ![o] = "freed"]

Init ==
  /\ exists = Object
  /\ request = [o \in Object |-> None]
  /\ answer = [o \in Object |-> "ok"]

Next == \E o \in Object : Ask(o) \/ Use(o) \/ Free(o)

Spec == Init /\ [][Next]_<<exists, request, answer>>
=============================================================================
