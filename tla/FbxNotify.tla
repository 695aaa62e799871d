------------------------------- MODULE FbxNotify -------------------------------
(***************************************************************************)
(* The messages of notify requests: what the handler sends when an object  *)
(* changes, how programs take and reply messages, and how requests start   *)
(* and end meanwhile.                                                      *)
(*                                                                         *)
(* The event loop takes packets until there are none and then replies      *)
(* until there are none, one per step.  Which entries a change concerns is *)
(* the business of FbxLocks; here a change concerns one request.           *)
(***************************************************************************)
EXTENDS Naturals, Sequences, FiniteSets

CONSTANTS
  Req,            \* notify requests
  SignalOnly,     \* those with NRF_SEND_SIGNAL; all others send messages
  WaitReply,      \* those with NRF_WAIT_REPLY
  Initial,        \* those with NRF_NOTIFY_INITIAL
  Missing,        \* those for an object that does not exist
  CountMod,       \* nr_MsgCount is a number modulo this
  MaxPackets,     \* bound on the packets at the port
  MaxMessages,    \* bound on the messages of a request that are under way
  CanFail,        \* those for which the handler can be out of memory
  MayEnd,         \* those that programs end
  MayDie          \* the handler can be shut down

ASSUME ConstantAssumption ==
  /\ SignalOnly \subseteq Req /\ WaitReply \subseteq Req \ SignalOnly
  /\ Initial \subseteq Req /\ Missing \subseteq Req
  /\ CountMod \in Nat \ {0} /\ MaxPackets \in Nat /\ MaxMessages \in Nat
  /\ MaxMessages < CountMod
  /\ CanFail \subseteq Req /\ MayEnd \subseteq Req /\ MayDie \in BOOLEAN

VARIABLES
  prog,           \* how far a program is with a request
  node,           \* the requests that the handler has
  count,          \* nr_MsgCount
  magic,          \* NRF_MAGIC
  inbox,          \* messages of a request at the program's port
  hand,           \* messages that the program has taken and not replied
  signal,         \* the signal of a request is set
  replyport,      \* fs->notifyreplyport: the replied messages
  fsport,         \* fs->fsport
  r2,             \* fs->r2
  pc,             \* where the event loop is
  news            \* changes that the program has not been told of

requests == <<node, count, magic>>
messages == <<inbox, hand, signal>>
vars     == <<prog, requests, messages, replyport, fsport, r2, pc, news>>

ENOENT == "-ENOENT"        \* the result of getattr for a missing object

Replies(r) == Cardinality({i \in DOMAIN replyport : replyport[i] = r})

\* The messages of a request that the handler has not got back yet.
UnderWay(r) == inbox[r] + hand[r] + Replies(r)

-----------------------------------------------------------------------------
(* Programs *)

Send(type, r) ==
  /\ Len(fsport) < MaxPackets
  /\ fsport' = Append(fsport, <<type, r>>)

StartNotify(r) ==
  /\ prog[r] = "off" /\ pc # "gone"
  /\ UnderWay(r) < MaxMessages
  /\ Send("add", r)
  /\ prog' = [prog EXCEPT ![r] = "add"]
  /\ UNCHANGED <<requests, messages, replyport, r2, pc, news>>

\* A packet that changes the object.
ChangeObject(r) ==
  /\ pc # "gone"
  /\ UnderWay(r) + Len(fsport) < MaxMessages
  /\ Send("change", r)
  /\ UNCHANGED <<prog, requests, messages, replyport, r2, pc, news>>

\* The program takes a message or the signal, and looks at the object then.
Take(r) ==
  /\ \/ /\ inbox[r] > 0
        /\ inbox' = [inbox EXCEPT ![r] = @ - 1]
        /\ hand' = [hand EXCEPT ![r] = @ + 1]
        /\ UNCHANGED signal
     \/ /\ signal[r]
        /\ signal' = [signal EXCEPT ![r] = FALSE]
        /\ UNCHANGED <<inbox, hand>>
  /\ prog[r] = "on"
  /\ news' = [news EXCEPT ![r] = FALSE]
  /\ UNCHANGED <<prog, requests, replyport, fsport, r2, pc>>

Reply(r) ==
  /\ hand[r] > 0
  /\ hand' = [hand EXCEPT ![r] = @ - 1]
  /\ replyport' = Append(replyport, r)
  /\ UNCHANGED <<prog, requests, inbox, signal, fsport, r2, pc, news>>

\* EndNotify sends ACTION_REMOVE_NOTIFY, and when it is answered replies the
\* messages of the request that are at the port.
EndNotify(r) ==
  /\ r \in MayEnd /\ prog[r] = "on" /\ hand[r] = 0
  /\ Send("remove", r)
  /\ prog' = [prog EXCEPT ![r] = "remove"]
  /\ UNCHANGED <<requests, messages, replyport, r2, pc, news>>

ReplyAll(r) ==
  /\ prog[r] = "clean"
  /\ replyport' = replyport \o [i \in 1..inbox[r] |-> r]
  /\ inbox' = [inbox EXCEPT ![r] = 0]
  /\ prog' = [prog EXCEPT ![r] = "off"]
  /\ signal' = [signal EXCEPT ![r] = FALSE]
  /\ UNCHANGED <<requests, hand, fsport, r2, pc, news>>

-----------------------------------------------------------------------------
(* Notifying one request.  n is the message count before it. *)

\* Mutant of FbxDoNotifyRequest: NRF_WAIT_REPLY is not looked at.
NotifyAtOnce(r, n) ==
  /\ count' = [count EXCEPT ![r] = (n + 1) % CountMod]
  /\ inbox' = [inbox EXCEPT ![r] = @ + 1]
  /\ UNCHANGED <<magic, hand, signal>>

FbxDoNotifyRequest(r, n) ==
  \/ /\ r \in SignalOnly
     /\ signal' = [signal EXCEPT ![r] = TRUE]
     /\ count' = [count EXCEPT ![r] = n]
     /\ UNCHANGED <<magic, inbox, hand>>
  \/ /\ r \in WaitReply /\ n > 0
     /\ magic' = [magic EXCEPT ![r] = TRUE]
     /\ count' = [count EXCEPT ![r] = n]
     /\ UNCHANGED messages
  \/ /\ r \notin SignalOnly /\ ~(r \in WaitReply /\ n > 0)
     /\ count' = [count EXCEPT ![r] = (n + 1) % CountMod]
     /\ inbox' = [inbox EXCEPT ![r] = @ + 1]
     /\ UNCHANGED <<magic, hand, signal>>
  \/ /\ r \notin SignalOnly /\ ~(r \in WaitReply /\ n > 0)
     /\ r \in CanFail
     /\ count' = [count EXCEPT ![r] = n]
     /\ UNCHANGED <<magic, messages>>

-----------------------------------------------------------------------------
(* Packets *)

\* The next packet is of this type and about r; it is taken and answered.
IsNext(type, r) ==
  fsport # <<>> /\ Head(fsport) = <<type, r>> /\ fsport' = Tail(fsport)

\* A request that is accepted or refused.
Started(r, ok) ==
  /\ prog' = [prog EXCEPT ![r] = IF ok THEN "on" ELSE "refused"]
  /\ node' = IF ok THEN node \cup {r} ELSE node

\* The count starts from zero.  For a missing object, the result that the
\* previous packet left in r2 is compared with that of getattr.
FbxAddNotify(r) ==
  /\ IsNext("add", r)
  /\ \/ /\ r \notin Missing
        /\ Started(r, TRUE)
        /\ IF r \in Initial
           THEN FbxDoNotifyRequest(r, 0) /\ news' = [news EXCEPT ![r] = TRUE]
           ELSE /\ count' = [count EXCEPT ![r] = 0]
                /\ news' = [news EXCEPT ![r] = FALSE]
                /\ UNCHANGED <<magic, messages>>
        /\ r2' = "0"
     \/ /\ r \in Missing \cup CanFail
        /\ count' = [count EXCEPT ![r] = 0]
        /\ UNCHANGED <<magic, messages, news>>
        /\ IF r \in Missing /\ r2 = ENOENT
           THEN Started(r, TRUE) /\ r2' = "0"
           ELSE Started(r, FALSE) /\ r2' = "error"
  /\ UNCHANGED replyport

\* Mutant of FbxRemoveNotify: the request stays in the handler's lists.
RemoveKeepsNode(r) ==
  /\ IsNext("remove", r)
  /\ count' = [count EXCEPT ![r] = 0]
  /\ prog' = [prog EXCEPT ![r] = "clean"]
  /\ UNCHANGED <<node, magic, messages, replyport, r2, news>>

FbxRemoveNotify(r) ==
  /\ IsNext("remove", r)
  /\ node' = node \ {r}
  /\ count' = [count EXCEPT ![r] = 0]
  /\ prog' = [prog EXCEPT ![r] = "clean"]
  /\ UNCHANGED <<magic, messages, replyport, r2, news>>

\* A packet that changes the object succeeds or not; if it does, the request
\* is notified.
FbxDoNotify(r) ==
  /\ IsNext("change", r)
  /\ \/ /\ r \in node
        /\ FbxDoNotifyRequest(r, count[r])
        /\ news' = [news EXCEPT ![r] = TRUE]
     \/ r \notin node /\ UNCHANGED <<count, magic, messages, news>>
  /\ \E result \in {"0", "error"} : r2' = result
  /\ UNCHANGED <<node, replyport, prog>>

-----------------------------------------------------------------------------
(* The event loop *)

Wait ==
  /\ pc = "wait"
  /\ \/ fsport # <<>> /\ pc' = "packets"
     \/ replyport # <<>> /\ pc' = "replies"
  /\ UNCHANGED <<prog, requests, messages, replyport, fsport, r2, news>>

FbxHandlePackets ==
  /\ pc = "packets"
  /\ IF fsport # <<>>
     THEN /\ \E r \in Req : FbxAddNotify(r) \/ FbxRemoveNotify(r) \/ FbxDoNotify(r)
          /\ UNCHANGED pc
     ELSE /\ pc' = IF replyport # <<>> THEN "replies" ELSE "wait"
          /\ UNCHANGED <<prog, requests, messages, replyport, fsport, r2, news>>

\* Mutant of HandleReply: a message that is sent again is counted again.
CountAgain(r) ==
  IF magic[r]
  THEN /\ magic' = [magic EXCEPT ![r] = FALSE]
       /\ inbox' = [inbox EXCEPT ![r] = @ + 1]
       /\ count' = [count EXCEPT ![r] = (@ + 1) % CountMod]
       /\ UNCHANGED <<hand, signal>>
  ELSE /\ count' = [count EXCEPT ![r] = @ - 1]
       /\ UNCHANGED <<magic, messages>>

\* Mutant of HandleReply: every message is freed.
NeverAgain(r) ==
  /\ magic' = [magic EXCEPT ![r] = FALSE]
  /\ count' = [count EXCEPT ![r] = @ - 1]
  /\ UNCHANGED messages

\* A message that came back is sent again if something has changed since, or
\* is freed.
HandleReply(r) ==
  IF magic[r]
  THEN /\ magic' = [magic EXCEPT ![r] = FALSE]
       /\ inbox' = [inbox EXCEPT ![r] = @ + 1]
       /\ UNCHANGED <<count, hand, signal>>
  ELSE /\ count' = [count EXCEPT ![r] = (@ + CountMod - 1) % CountMod]
       /\ UNCHANGED <<magic, messages>>

FbxHandleNotifyReplies ==
  /\ pc \in {"replies", "dying"}
  /\ IF replyport # <<>>
     THEN /\ HandleReply(Head(replyport))
          /\ replyport' = Tail(replyport)
          /\ UNCHANGED pc
     ELSE /\ pc' = IF pc = "dying" THEN "gone" ELSE "wait"
          /\ UNCHANGED <<count, magic, messages, replyport>>
  /\ UNCHANGED <<prog, node, fsport, r2, news>>

\* Shutdown: the requests and the packets go to the lock handler.  The turn of
\* the loop goes on and handles the replies, unless the first of them came after
\* the Wait; then the reply port is deleted with what it has.
FbxDie ==
  /\ MayDie /\ pc = "packets"
  /\ pc' \in {"dying", "gone"}
  /\ node' = {}
  /\ UNCHANGED <<prog, count, magic, messages, replyport, fsport, r2, news>>

\* The lock handler answers all packets from then on.
FbxLockHandlerProc ==
  /\ pc \in {"dying", "gone"}
  /\ \E r \in Req :
       \/ /\ IsNext("add", r)
          /\ prog' = [prog EXCEPT ![r] = "refused"]
          /\ UNCHANGED count
       \/ /\ IsNext("remove", r)
          /\ prog' = [prog EXCEPT ![r] = "clean"]
          /\ count' = [count EXCEPT ![r] = 0]
       \/ IsNext("change", r) /\ UNCHANGED <<prog, count>>
  /\ UNCHANGED <<node, magic, messages, replyport, r2, pc, news>>

-----------------------------------------------------------------------------
Init ==
  /\ prog = [r \in Req |-> "off"]
  /\ node = {} /\ count = [r \in Req |-> 0] /\ magic = [r \in Req |-> FALSE]
  /\ inbox = [r \in Req |-> 0] /\ hand = [r \in Req |-> 0]
  /\ signal = [r \in Req |-> FALSE]
  /\ replyport = <<>> /\ fsport = <<>> /\ r2 = "0" /\ pc = "wait"
  /\ news = [r \in Req |-> FALSE]

Handler ==
  Wait \/ FbxHandlePackets \/ FbxHandleNotifyReplies \/ FbxLockHandlerProc

Next ==
  \/ \E r \in Req : \/ StartNotify(r) \/ ChangeObject(r) \/ Take(r) \/ Reply(r)
                    \/ EndNotify(r) \/ ReplyAll(r)
  \/ Handler \/ FbxDie

Spec == Init /\ [][Next]_vars

\* The handler gets its turn, and programs take and reply what they are sent.
FairSpec ==
  /\ Spec
  /\ WF_vars(Handler)
  /\ \A r \in Req : WF_vars(Take(r)) /\ WF_vars(Reply(r))

-----------------------------------------------------------------------------
(* Properties *)

TypeOK ==
  /\ prog \in [Req -> {"off", "add", "on", "refused", "remove", "clean"}]
  /\ node \subseteq Req
  /\ count \in [Req -> 0..CountMod - 1] /\ magic \in [Req -> BOOLEAN]
  /\ inbox \in [Req -> 0..MaxMessages] /\ hand \in [Req -> 0..MaxMessages]
  /\ signal \in [Req -> BOOLEAN]
  /\ replyport \in Seq(Req)
  /\ fsport \in Seq({"add", "remove", "change"} \X Req)
  /\ r2 \in {"0", "error", ENOENT}
  /\ pc \in {"wait", "packets", "replies", "dying", "gone"}
  /\ news \in [Req -> BOOLEAN]

\* nr_MsgCount is the number of the messages that have not come back, as long as
\* a request is not started again before they have.
CountIsUnderWay == \A r \in node \ MayEnd : count[r] = UnderWay(r)

\* NRF_WAIT_REPLY: a program is never sent a message before it has replied the
\* one before, as long as the request is not started again before that.
OneAtATime == \A r \in WaitReply \ MayEnd : inbox[r] + hand[r] <= 1

\* After EndNotify no message about the request comes any more.  With
\* NRF_WAIT_REPLY one can: NRF_MAGIC outlives the request.
OffIsSilent ==
  \A r \in Req \ (WaitReply \cap MayEnd) : prog[r] = "off" => inbox[r] = 0

\* Programs are told of every change, whatever changes while they work on an
\* earlier message, if the event loop finds its port empty now and then.
Told ==
  []<>(pc = "wait") =>
    \A r \in Req \ (CanFail \cup MayEnd) : news[r] ~> ~news[r] \/ pc = "gone"
=============================================================================
