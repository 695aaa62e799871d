------------------------------- MODULE FbxHelper -------------------------------
(***************************************************************************)
(* What a helper process of the library promises to the handlers.  It runs *)
(* from the time the first handler joins until after the last one has      *)
(* left.  This is the abstract specification that the DOS list process and *)
(* the lock handler process implement.                                     *)
(***************************************************************************)
CONSTANT Handler

VARIABLES
  users,          \* the handlers that count on the helper
  alive           \* the helper runs

Init == users = {} /\ alive = FALSE

\* A handler joins and the helper is started, if it does not run.
Join(h) == h \notin users /\ users' = users \cup {h} /\ alive' = TRUE

Leave(h) == h \in users /\ users' = users \ {h} /\ UNCHANGED alive

\* Only a helper that nobody uses ends.
End == alive /\ users = {} /\ alive' = FALSE /\ UNCHANGED users

Next == End \/ \E h \in Handler : Join(h) \/ Leave(h)

Spec == Init /\ [][Next]_<<users, alive>>
=============================================================================
