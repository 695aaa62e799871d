---------------------------- MODULE FbxNotifyProofs ----------------------------
(***************************************************************************)
(* Proofs about FbxNotify, for every set of requests of every kind and     *)
(* every bound: nr_MsgCount is the number of messages under way, a program *)
(* that asked for it has one message at a time, and a request that has     *)
(* ended is silent.                                                        *)
(*                                                                         *)
(* A message under way is at one of three places, the last of them a queue *)
(* in which the messages of all requests are mixed.  The first section     *)
(* counts the members of a queue.                                          *)
(***************************************************************************)
EXTENDS FbxNotify, Integers, SequenceTheorems, FiniteSetTheorems, FunctionTheorems,
        TLAPS

-----------------------------------------------------------------------------
(* How often something is in a queue *)

Count(s, r) == Cardinality({i \in DOMAIN s : s[i] = r})

LEMMA CountType ==
  ASSUME NEW S, NEW s \in Seq(S), NEW r
  PROVE  IsFiniteSet({i \in DOMAIN s : s[i] = r}) /\ Count(s, r) \in Nat
<1>1. IsFiniteSet(1..Len(s)) BY FS_Interval
<1>2. IsFiniteSet({i \in DOMAIN s : s[i] = r}) BY <1>1, FS_Subset, DOMAIN s = 1..Len(s)
<1> QED BY <1>2, FS_CardinalityType DEF Count

LEMMA CountAppend ==
  ASSUME NEW S, NEW s \in Seq(S), NEW e \in S, NEW r
  PROVE  Count(Append(s, e), r) = Count(s, r) + (IF e = r THEN 1 ELSE 0)
<1> DEFINE I == {i \in DOMAIN s : s[i] = r}
           J == {i \in DOMAIN Append(s, e) : Append(s, e)[i] = r}
<1>1. IsFiniteSet(I) /\ Cardinality(I) \in Nat BY CountType DEF Count
<1>2. CASE e = r
  <2>1. J = I \cup {Len(s) + 1} /\ Len(s) + 1 \notin I BY <1>2
  <2> QED BY <1>1, <1>2, <2>1, FS_AddElement DEF Count
<1>3. CASE e # r
  <2>1. J = I BY <1>3
  <2>2. Count(Append(s, e), r) = Count(s, r) BY <2>1 DEF Count
  <2>3. Count(s, r) \in Nat BY CountType
  <2> QED BY <1>3, <2>2, <2>3
<1> QED BY <1>2, <1>3

LEMMA CountTail ==
  ASSUME NEW S, NEW s \in Seq(S), s # <<>>, NEW r
  PROVE  Count(Tail(s), r) = Count(s, r) - (IF Head(s) = r THEN 1 ELSE 0)
<1> DEFINE I == {i \in DOMAIN s : s[i] = r}
           J == {i \in DOMAIN Tail(s) : Tail(s)[i] = r}
           f == [j \in J |-> j + 1]
<1>1. IsFiniteSet(I) /\ Cardinality(I) \in Nat BY CountType DEF Count
<1>2. IsFiniteSet(J) /\ Cardinality(J) \in Nat BY CountType, Tail(s) \in Seq(S) DEF Count
<1>3. J \subseteq Nat /\ Len(Tail(s)) = Len(s) - 1 /\ Len(s) \in Nat \ {0}
  BY HeadTailProperties, EmptySeq
<1>4. f \in Bijection(J, I \ {1})
  <2>1. \A j \in J : j + 1 \in I \ {1} BY <1>3
  <2>2. \A i \in I \ {1} : i - 1 \in J /\ (i - 1) + 1 = i BY <1>3
  <2>3. f \in [J -> I \ {1}] BY <2>1
  <2>4. \A i \in I \ {1} : \E j \in J : f[j] = i BY <2>2
  <2>5. \A i, j \in J : f[i] = f[j] => i = j BY <1>3
  <2> QED BY <2>3, <2>4, <2>5 DEF Bijection, Injection, Surjection, IsInjective
<1>5. Cardinality(J) = Cardinality(I \ {1})
  BY <1>2, <1>4, FS_Bijection DEF ExistsBijection
<1>6. 1 \in I <=> Head(s) = r
  BY <1>3
<1>7. Count(s, r) = Cardinality(I) /\ Count(Tail(s), r) = Cardinality(J)
  BY DEF Count
<1> HIDE DEF I, J
<1>8. Cardinality(I \ {1}) = IF 1 \in I THEN Cardinality(I) - 1 ELSE Cardinality(I)
  BY <1>1, FS_RemoveElement
<1>9. CASE Head(s) = r
  BY <1>1, <1>5, <1>6, <1>7, <1>8, <1>9
<1>10. CASE Head(s) # r
  BY <1>1, <1>5, <1>6, <1>7, <1>8, <1>10
<1> QED BY <1>9, <1>10

LEMMA CountConcat ==
  ASSUME NEW S, NEW s \in Seq(S), NEW e \in S, NEW n \in Nat, NEW r
  PROVE  Count(s \o [i \in 1..n |-> e], r) = Count(s, r) + (IF e = r THEN n ELSE 0)
<1> DEFINE t == [i \in 1..n |-> e]
           I == {i \in DOMAIN s : s[i] = r}
           J == {i \in DOMAIN (s \o t) : (s \o t)[i] = r}
           K == Len(s) + 1 .. Len(s) + n
<1>1. IsFiniteSet(I) /\ Cardinality(I) \in Nat BY CountType DEF Count
<1>2. t \in Seq(S) /\ Len(t) = n /\ \A i \in 1..n : t[i] = e BY IsASeq
<1>3. \A i \in 1..(Len(s) + n) : (s \o t)[i] = IF i <= Len(s) THEN s[i] ELSE e
  BY <1>2, ConcatProperties
<1>4. DOMAIN (s \o t) = 1..(Len(s) + n) BY <1>2, ConcatProperties, LenProperties
<1>5. CASE e = r
  <2>1. J = I \cup K /\ I \cap K = {} BY <1>3, <1>4, <1>5
  <2>2. IsFiniteSet(K) /\ Cardinality(K) = n BY FS_Interval
  <2>3. Count(s, r) = Cardinality(I) /\ Count(s \o t, r) = Cardinality(J)
    BY DEF Count
  <2> HIDE DEF I, J, K, t
  <2>4. Cardinality(I \cup K) = Cardinality(I) + Cardinality(K) - Cardinality(I \cap K)
    BY <1>1, <2>2, FS_Union
  <2>5. Cardinality(I \cap K) = 0
    BY <2>1, FS_EmptySet
  <2>6. Cardinality(J) = Cardinality(I) + n
    BY <1>1, <2>1, <2>2, <2>4, <2>5
  <2> QED BY <1>1, <1>5, <2>3, <2>6 DEF t
<1>6. CASE e # r
  <2>1. J = I BY <1>3, <1>4, <1>6
  <2>2. Count(s \o t, r) = Count(s, r) BY <2>1 DEF Count
  <2>3. Count(s, r) \in Nat BY CountType
  <2> QED BY <1>6, <2>2, <2>3
<1> QED BY <1>5, <1>6

-----------------------------------------------------------------------------
(* Numbers modulo CountMod *)

LEMMA ModSmall ==
  ASSUME NEW x \in Nat, NEW m \in Nat \ {0}, x < m
  PROVE  x % m = x
  OBVIOUS

LEMMA ModPredecessor ==
  ASSUME NEW x \in Nat \ {0}, NEW m \in Nat \ {0}, x < m
  PROVE  (x + m - 1) % m = x - 1
<1>1. x - 1 \in Nat /\ x - 1 < m /\ x + m - 1 = (x - 1) + m
  OBVIOUS
<1>2. \A y \in Nat : y < m => (y + m) % m = y
  OBVIOUS
<1> QED
  BY <1>1, <1>2

LEMMA ModType ==
  ASSUME NEW x \in Nat, NEW m \in Nat \ {0}
  PROVE  x % m \in 0..m - 1
  OBVIOUS

-----------------------------------------------------------------------------
(* The inductive invariant *)

Types ==
  /\ prog \in [Req -> {"off", "add", "on", "refused", "remove", "clean"}]
  /\ node \subseteq Req
  /\ count \in [Req -> 0..CountMod - 1] /\ magic \in [Req -> BOOLEAN]
  /\ inbox \in [Req -> Nat] /\ hand \in [Req -> Nat]
  /\ signal \in [Req -> BOOLEAN]
  /\ replyport \in Seq(Req)
  /\ fsport \in Seq({"add", "remove", "change"} \X Req)
  /\ r2 \in {"0", "error", ENOENT}
  /\ pc \in {"wait", "packets", "replies", "dying", "gone"}
  /\ news \in [Req -> BOOLEAN]

\* What the packets at the port say about a request: one that starts or ends
\* it is there once, while the program waits for its answer; and whatever will be
\* sent until the handler has come to a packet, there is room for it.
PacketsInv(r) ==
  \A i \in DOMAIN fsport :
    /\ fsport[i] = <<"add", r>> => prog[r] = "add" /\ UnderWay(r) < MaxMessages
    /\ fsport[i] = <<"remove", r>> => prog[r] = "remove"
    /\ fsport[i] = <<"change", r>> => UnderWay(r) + i <= MaxMessages
    /\ \A j \in DOMAIN fsport :
         fsport[i] = fsport[j] /\ fsport[i] \in {<<"add", r>>, <<"remove", r>>}
           => i = j

\* How far the program is, what the handler has, and what can be sent again.
RequestInv(r) ==
  /\ UnderWay(r) <= MaxMessages
  /\ r \in node => prog[r] \in {"on", "remove"} /\ pc \notin {"dying", "gone"}
  /\ magic[r] => r \in WaitReply
  /\ r \notin MayEnd => prog[r] \notin {"remove", "clean"}
  /\ r \notin MayEnd /\ prog[r] \in {"off", "add", "refused"} => UnderWay(r) = 0
  /\ r \in node \ MayEnd => count[r] = UnderWay(r)
  /\ r \in WaitReply \ MayEnd => UnderWay(r) <= 1
  /\ r \notin WaitReply /\ prog[r] = "off" => inbox[r] = 0

IInv == Types /\ \A r \in Req : PacketsInv(r) /\ RequestInv(r)

LEMMA UnderWayType ==
  ASSUME Types, NEW r \in Req
  PROVE  Replies(r) \in Nat /\ UnderWay(r) \in Nat
<1>1. Replies(r) = Count(replyport, r)
  BY DEF Replies, Count
<1>2. Count(replyport, r) \in Nat
  BY CountType DEF Types
<1> QED
  BY <1>1, <1>2 DEF Types, UnderWay

LEMMA UnderWayTypeNext ==
  ASSUME Types', NEW r \in Req
  PROVE  UnderWay(r)' \in Nat
<1>1. Count(replyport', r) \in Nat
  BY CountType DEF Types
<1>2. Replies(r)' = Count(replyport', r)
  BY DEF Replies, Count
<1> QED
  BY <1>1, <1>2 DEF Types, UnderWay

-----------------------------------------------------------------------------
(* Types *)

LEMMA NotifyTypes ==
  ASSUME Types, NEW r \in Req, NEW n \in 0..CountMod - 1, FbxDoNotifyRequest(r, n)
  PROVE  /\ count' \in [Req -> 0..CountMod - 1] /\ magic' \in [Req -> BOOLEAN]
         /\ inbox' \in [Req -> Nat] /\ hand' \in [Req -> Nat]
         /\ signal' \in [Req -> BOOLEAN]
<1>1. (n + 1) % CountMod \in 0..CountMod - 1
  BY ModType, ConstantAssumption
<1>2. magic' \in [Req -> BOOLEAN]
  <2>1. magic' = magic \/ magic' = [magic EXCEPT ![r] = TRUE]
    BY Zenon DEF FbxDoNotifyRequest
  <2> QED
    BY <2>1, Zenon DEF Types
<1>3. signal' \in [Req -> BOOLEAN]
  <2>1. signal' = signal \/ signal' = [signal EXCEPT ![r] = TRUE]
    BY Zenon DEF FbxDoNotifyRequest, messages
  <2> QED
    BY <2>1, Zenon DEF Types
<1>4. count' \in [Req -> 0..CountMod - 1]
  <2>1. \/ count' = [count EXCEPT ![r] = n]
        \/ count' = [count EXCEPT ![r] = (n + 1) % CountMod]
    BY Zenon DEF FbxDoNotifyRequest
  <2> QED
    BY <1>1, <2>1 DEF Types
<1>5. inbox' \in [Req -> Nat] /\ hand' \in [Req -> Nat]
  <2>1. inbox' = inbox \/ inbox' = [inbox EXCEPT ![r] = @ + 1]
    BY Zenon DEF FbxDoNotifyRequest, messages
  <2>2. hand' = hand
    BY Zenon DEF FbxDoNotifyRequest, messages
  <2>3. inbox \in [Req -> Nat] /\ hand \in [Req -> Nat]
    BY DEF Types
  <2> QED
    BY <2>1, <2>2, <2>3
<1> QED
  BY <1>2, <1>3, <1>4, <1>5

LEMMA TypesStep == Types /\ [Next]_vars => Types'
<1> USE ConstantAssumption
<1> SUFFICES ASSUME Types, [Next]_vars PROVE Types'
  OBVIOUS
<1>1. ASSUME NEW r \in Req, StartNotify(r) PROVE Types'
  BY <1>1 DEF StartNotify, Send, Types, requests, messages
<1>2. ASSUME NEW r \in Req, ChangeObject(r) PROVE Types'
  BY <1>2 DEF ChangeObject, Send, Types, requests, messages
<1>3. ASSUME NEW r \in Req, Take(r) PROVE Types'
  <2>1. signal' \in [Req -> BOOLEAN]
    <3>1. signal' = signal \/ signal' = [signal EXCEPT ![r] = FALSE]
      BY <1>3, Zenon DEF Take
    <3> QED
      BY <3>1, Zenon DEF Types
  <2>2. inbox' \in [Req -> Nat] /\ hand' \in [Req -> Nat]
    <3>1. \/ /\ inbox[r] > 0 /\ inbox' = [inbox EXCEPT ![r] = @ - 1]
             /\ hand' = [hand EXCEPT ![r] = @ + 1]
          \/ UNCHANGED <<inbox, hand>>
      BY <1>3 DEF Take
    <3>2. inbox \in [Req -> Nat] /\ hand \in [Req -> Nat]
      BY DEF Types
    <3> QED
      BY <3>1, <3>2
  <2>3. news' \in [Req -> BOOLEAN]
    BY <1>3, Zenon DEF Take, Types
  <2>4. UNCHANGED <<prog, requests, replyport, fsport, r2, pc>>
    BY <1>3 DEF Take
  <2> QED
    BY <2>1, <2>2, <2>3, <2>4 DEF Types, requests
<1>4. ASSUME NEW r \in Req, Reply(r) PROVE Types'
  BY <1>4 DEF Reply, Types, requests
<1>5. ASSUME NEW r \in Req, EndNotify(r) PROVE Types'
  BY <1>5 DEF EndNotify, Send, Types, requests, messages
<1>6. ASSUME NEW r \in Req, ReplyAll(r) PROVE Types'
  <2>1. [i \in 1..inbox[r] |-> r] \in Seq(Req)
    <3>1. inbox[r] \in Nat
      BY DEF Types
    <3> QED
      BY <3>1
  <2>2. replyport' \in Seq(Req)
    BY <1>6, <2>1, ConcatProperties DEF ReplyAll, Types
  <2> QED
    BY <1>6, <2>2 DEF ReplyAll, Types, requests
<1>7. CASE Wait
  BY <1>7 DEF Wait, Types, requests, messages
<1>8. ASSUME NEW r \in Req, FbxAddNotify(r), UNCHANGED pc PROVE Types'
  <2>1. fsport' \in Seq({"add", "remove", "change"} \X Req)
    BY <1>8, HeadTailProperties DEF FbxAddNotify, IsNext, Types
  <2>2. /\ count' \in [Req -> 0..CountMod - 1] /\ magic' \in [Req -> BOOLEAN]
        /\ inbox' \in [Req -> Nat] /\ hand' \in [Req -> Nat]
        /\ signal' \in [Req -> BOOLEAN] /\ news' \in [Req -> BOOLEAN]
    <3>1. CASE FbxDoNotifyRequest(r, 0) /\ news' = [news EXCEPT ![r] = TRUE]
      <4>1. news' \in [Req -> BOOLEAN]
        BY <3>1 DEF Types
      <4>2. 0 \in 0..CountMod - 1
        BY ConstantAssumption DEF ConstantAssumption
      <4> QED
        BY <3>1, <4>1, <4>2, NotifyTypes
    <3>2. CASE /\ count' = [count EXCEPT ![r] = 0]
               /\ news' = [news EXCEPT ![r] = FALSE] \/ UNCHANGED news
               /\ UNCHANGED <<magic, messages>>
      <4>1. news' \in [Req -> BOOLEAN]
        BY <3>2, Zenon DEF Types
      <4>2. count' \in [Req -> 0..CountMod - 1]
        BY <3>2 DEF Types
      <4> QED
        BY <3>2, <4>1, <4>2 DEF Types, messages
    <3> QED
      BY <1>8, <3>1, <3>2 DEF FbxAddNotify
  <2>3. prog' \in [Req -> {"off", "add", "on", "refused", "remove", "clean"}]
        /\ node' \subseteq Req
    <3>1. PICK ok \in BOOLEAN : Started(r, ok)
      BY <1>8 DEF FbxAddNotify
    <3> QED
      BY <3>1 DEF Started, Types
  <2>4. r2' \in {"0", "error", ENOENT} /\ UNCHANGED <<replyport, pc>>
    BY <1>8 DEF FbxAddNotify
  <2> QED
    BY <2>1, <2>2, <2>3, <2>4 DEF Types
<1>9. ASSUME NEW r \in Req, FbxRemoveNotify(r), UNCHANGED pc PROVE Types'
  <2>1. fsport' \in Seq({"add", "remove", "change"} \X Req)
    BY <1>9, HeadTailProperties DEF FbxRemoveNotify, IsNext, Types
  <2> QED
    BY <1>9, <2>1 DEF FbxRemoveNotify, Types, messages
<1>10. ASSUME NEW r \in Req, FbxDoNotify(r), UNCHANGED pc PROVE Types'
  <2>1. fsport' \in Seq({"add", "remove", "change"} \X Req)
    BY <1>10, HeadTailProperties DEF FbxDoNotify, IsNext, Types
  <2>2. /\ count' \in [Req -> 0..CountMod - 1] /\ magic' \in [Req -> BOOLEAN]
        /\ inbox' \in [Req -> Nat] /\ hand' \in [Req -> Nat]
        /\ signal' \in [Req -> BOOLEAN] /\ news' \in [Req -> BOOLEAN]
    <3>1. CASE r \in node
      <4>1. FbxDoNotifyRequest(r, count[r]) /\ news' = [news EXCEPT ![r] = TRUE]
        BY <1>10, <3>1 DEF FbxDoNotify
      <4>2. count[r] \in 0..CountMod - 1
        BY DEF Types
      <4> QED
        BY <4>1, <4>2, NotifyTypes DEF Types
    <3>2. CASE r \notin node
      BY <1>10, <3>2 DEF FbxDoNotify, Types, messages
    <3> QED
      BY <3>1, <3>2
  <2>3. r2' \in {"0", "error"} /\ UNCHANGED <<node, replyport, prog, pc>>
    BY <1>10 DEF FbxDoNotify
  <2> QED
    BY <2>1, <2>2, <2>3 DEF Types
<1>11. CASE FbxHandlePackets
  <2>1. CASE fsport # <<>>
    BY <1>8, <1>9, <1>10, <1>11, <2>1 DEF FbxHandlePackets
  <2>2. CASE fsport = <<>>
    BY <1>11, <2>2 DEF FbxHandlePackets, Types, requests, messages
  <2> QED
    BY <2>1, <2>2
<1>12. CASE FbxHandleNotifyReplies
  <2>1. CASE replyport # <<>>
    <3>0. /\ HandleReply(Head(replyport)) /\ replyport' = Tail(replyport)
          /\ UNCHANGED <<prog, node, fsport, r2, pc, news>>
      BY <1>12, <2>1 DEF FbxHandleNotifyReplies
    <3>1. Head(replyport) \in Req /\ replyport' \in Seq(Req)
      BY <2>1, <3>0, HeadTailProperties DEF Types
    <3>2. PICK r \in Req : HandleReply(r)
      BY <3>0, <3>1
    <3>3. (count[r] + CountMod - 1) % CountMod \in 0..CountMod - 1
      <4>1. count[r] + CountMod - 1 \in Nat
        BY DEF Types
      <4> QED
        BY <4>1, ModType
    <3>4. \/ /\ magic' = [magic EXCEPT ![r] = FALSE]
             /\ inbox' = [inbox EXCEPT ![r] = @ + 1]
             /\ UNCHANGED <<count, hand, signal>>
          \/ /\ count' = [count EXCEPT ![r] = (@ + CountMod - 1) % CountMod]
             /\ UNCHANGED <<magic, inbox, hand, signal>>
      BY <3>2 DEF HandleReply, messages
    <3>5. magic' \in [Req -> BOOLEAN]
      BY <3>4, Zenon DEF Types
    <3>6. count' \in [Req -> 0..CountMod - 1] /\ inbox' \in [Req -> Nat]
      <4>1. count \in [Req -> 0..CountMod - 1] /\ inbox \in [Req -> Nat]
        BY DEF Types
      <4> QED
        BY <3>3, <3>4, <4>1
    <3> QED
      BY <3>0, <3>1, <3>4, <3>5, <3>6 DEF Types
  <2>2. CASE replyport = <<>>
    BY <1>12, <2>2 DEF FbxHandleNotifyReplies, Types, messages
  <2> QED
    BY <2>1, <2>2
<1>13. CASE FbxDie
  BY <1>13 DEF FbxDie, Types, messages
<1>14. CASE FbxLockHandlerProc
  <2>1. fsport # <<>> /\ fsport' = Tail(fsport)
    BY <1>14 DEF FbxLockHandlerProc, IsNext
  <2>2. fsport' \in Seq({"add", "remove", "change"} \X Req)
    BY <2>1, HeadTailProperties DEF Types
  <2>3. PICK r \in Req : /\ \/ prog' = prog
                            \/ prog' = [prog EXCEPT ![r] = "refused"]
                            \/ prog' = [prog EXCEPT ![r] = "clean"]
                         /\ count' = count \/ count' = [count EXCEPT ![r] = 0]
    BY <1>14 DEF FbxLockHandlerProc
  <2>4. UNCHANGED <<node, magic, messages, replyport, r2, pc, news>>
    BY <1>14 DEF FbxLockHandlerProc
  <2>5. prog' \in [Req -> {"off", "add", "on", "refused", "remove", "clean"}]
        /\ count' \in [Req -> 0..CountMod - 1]
    <3>1. prog \in [Req -> {"off", "add", "on", "refused", "remove", "clean"}]
          /\ count \in [Req -> 0..CountMod - 1]
      BY DEF Types
    <3>2. prog' \in [Req -> {"off", "add", "on", "refused", "remove", "clean"}]
      <4> DEFINE P == {"off", "add", "on", "refused", "remove", "clean"}
      <4>1. prog \in [Req -> P] /\ "refused" \in P /\ "clean" \in P
        BY <3>1
      <4>2. prog' \in [Req -> P]
        <5> HIDE DEF P
        <5>1. CASE prog' = prog
          BY <4>1, <5>1
        <5>2. CASE prog' = [prog EXCEPT ![r] = "refused"]
          BY <4>1, <5>2
        <5>3. CASE prog' = [prog EXCEPT ![r] = "clean"]
          BY <4>1, <5>3
        <5> QED
          BY <2>3, <5>1, <5>2, <5>3, Zenon
      <4> QED
        BY <4>2
    <3>3. count' \in [Req -> 0..CountMod - 1]
      BY <2>3, <3>1
    <3> QED
      BY <3>2, <3>3
  <2> QED
    BY <2>2, <2>4, <2>5 DEF Types, messages
<1>15. CASE UNCHANGED vars
  BY <1>15 DEF vars, Types, requests, messages
<1> QED
  BY <1>1, <1>2, <1>3, <1>4, <1>5, <1>6, <1>7, <1>11, <1>12, <1>13, <1>14, <1>15
  DEF Next, Handler

-----------------------------------------------------------------------------
(* What the steps do to the messages that are under way *)

LEMMA UnderWayKept ==
  ASSUME Types, NEW r \in Req,
         inbox'[r] = inbox[r], hand'[r] = hand[r], replyport' = replyport
  PROVE  UnderWay(r)' = UnderWay(r)
  BY DEF UnderWay, Replies

\* Taking and replying messages moves them.
LEMMA TakeMoves ==
  ASSUME Types, NEW q \in Req, Take(q), NEW r \in Req
  PROVE  UnderWay(r)' = UnderWay(r)
<1>1. Replies(r)' = Replies(r) /\ Replies(r) \in Nat
  BY UnderWayType DEF Take, Replies
<1>2. inbox \in [Req -> Nat] /\ hand \in [Req -> Nat]
  BY DEF Types
<1>3. \/ /\ inbox[q] > 0 /\ inbox' = [inbox EXCEPT ![q] = @ - 1]
         /\ hand' = [hand EXCEPT ![q] = @ + 1]
      \/ UNCHANGED <<inbox, hand>>
  BY DEF Take
<1>4. inbox'[r] + hand'[r] = inbox[r] + hand[r]
  BY <1>2, <1>3
<1> QED
  BY <1>1, <1>4 DEF UnderWay

LEMMA ReplyMoves ==
  ASSUME Types, NEW q \in Req, Reply(q), NEW r \in Req
  PROVE  UnderWay(r)' = UnderWay(r)
<1>1. Replies(r)' = Replies(r) + (IF q = r THEN 1 ELSE 0)
  <2>1. replyport' = Append(replyport, q) /\ replyport \in Seq(Req)
    BY DEF Reply, Types
  <2>2. Count(replyport', r) = Count(replyport, r) + (IF q = r THEN 1 ELSE 0)
    BY <2>1, CountAppend
  <2> QED
    BY <2>2 DEF Replies, Count
<1>2. Replies(r) \in Nat
  BY UnderWayType
<1>3. inbox \in [Req -> Nat] /\ hand \in [Req -> Nat]
  BY DEF Types
<1>4. /\ hand[q] > 0 /\ inbox' = inbox
      /\ hand' = [hand EXCEPT ![q] = @ - 1]
  BY DEF Reply
<1> QED
  BY <1>1, <1>2, <1>3, <1>4 DEF UnderWay

LEMMA ReplyAllMoves ==
  ASSUME Types, NEW q \in Req, ReplyAll(q), NEW r \in Req
  PROVE  UnderWay(r)' = UnderWay(r)
<1>1. inbox \in [Req -> Nat] /\ hand \in [Req -> Nat]
  BY DEF Types
<1>2. Count(replyport', r) = Count(replyport, r) + (IF q = r THEN inbox[q] ELSE 0)
  <2>1. inbox[q] \in Nat /\ replyport \in Seq(Req)
    BY DEF Types
  <2>2. replyport' = replyport \o [i \in 1..inbox[q] |-> q]
    BY DEF ReplyAll
  <2> QED
    BY <2>1, <2>2, CountConcat
<1>3. Replies(r) = Count(replyport, r) /\ Replies(r)' = Count(replyport', r)
  BY DEF Replies, Count
<1>4. Replies(r) \in Nat
  BY UnderWayType
<1>5. inbox' = [inbox EXCEPT ![q] = 0] /\ hand' = hand
  BY DEF ReplyAll
<1> QED
  BY <1>1, <1>2, <1>3, <1>4, <1>5 DEF UnderWay

\* Only a notified request has more messages under way, and one more.
LEMMA NotifyAdds ==
  ASSUME Types, NEW q \in Req, NEW n \in 0..CountMod - 1, FbxDoNotifyRequest(q, n),
         replyport' = replyport, NEW r \in Req
  PROVE  /\ r # q => /\ UnderWay(r)' = UnderWay(r) /\ count'[r] = count[r]
                     /\ magic'[r] = magic[r] /\ inbox'[r] = inbox[r]
         /\ \/ /\ UnderWay(q)' = UnderWay(q) /\ count'[q] = n
               /\ magic'[q] = magic[q] \/ q \in WaitReply
            \/ /\ UnderWay(q)' = UnderWay(q) + 1 /\ count'[q] = (n + 1) % CountMod
               /\ magic'[q] = magic[q]
               /\ q \in WaitReply => n = 0
<1>1. Replies(r)' = Replies(r) /\ Replies(q)' = Replies(q)
      /\ Replies(r) \in Nat /\ Replies(q) \in Nat
  BY UnderWayType DEF Replies
<1>2. inbox \in [Req -> Nat] /\ hand \in [Req -> Nat]
  BY DEF Types
<1>3. DOMAIN count = Req /\ DOMAIN magic = Req
  BY DEF Types
<1>4. \/ /\ UNCHANGED <<inbox, hand>> /\ count' = [count EXCEPT ![q] = n]
         /\ magic' = magic \/ (q \in WaitReply /\ magic' = [magic EXCEPT ![q] = TRUE])
      \/ /\ q \in WaitReply => ~(n > 0)
         /\ count' = [count EXCEPT ![q] = (n + 1) % CountMod]
         /\ inbox' = [inbox EXCEPT ![q] = @ + 1]
         /\ UNCHANGED <<magic, hand>>
  <2>1. \/ /\ q \in SignalOnly /\ count' = [count EXCEPT ![q] = n]
           /\ UNCHANGED <<magic, inbox, hand>>
        \/ /\ q \in WaitReply /\ magic' = [magic EXCEPT ![q] = TRUE]
           /\ count' = [count EXCEPT ![q] = n] /\ UNCHANGED <<inbox, hand>>
        \/ /\ ~(q \in WaitReply /\ n > 0)
           /\ count' = [count EXCEPT ![q] = (n + 1) % CountMod]
           /\ inbox' = [inbox EXCEPT ![q] = @ + 1]
           /\ UNCHANGED <<magic, hand>>
        \/ count' = [count EXCEPT ![q] = n] /\ UNCHANGED <<magic, inbox, hand>>
    BY DEF FbxDoNotifyRequest, messages
  <2> QED
    BY <2>1, Zenon
<1>5. CASE /\ UNCHANGED <<inbox, hand>> /\ count' = [count EXCEPT ![q] = n]
           /\ magic' = magic \/ (q \in WaitReply /\ magic' = [magic EXCEPT ![q] = TRUE])
  BY <1>1, <1>3, <1>5 DEF UnderWay
<1>6. CASE /\ q \in WaitReply => ~(n > 0)
           /\ count' = [count EXCEPT ![q] = (n + 1) % CountMod]
           /\ inbox' = [inbox EXCEPT ![q] = @ + 1]
           /\ UNCHANGED <<magic, hand>>
  BY <1>1, <1>2, <1>3, <1>6 DEF UnderWay
<1> QED
  BY <1>4, <1>5, <1>6

\* A message that came back is sent again, or is not under way any more.
LEMMA HandleReplyMoves ==
  ASSUME Types, NEW q \in Req, replyport # <<>>, Head(replyport) = q,
         HandleReply(q), replyport' = Tail(replyport), NEW r \in Req
  PROVE  /\ r # q => /\ UnderWay(r)' = UnderWay(r) /\ count'[r] = count[r]
                     /\ magic'[r] = magic[r] /\ inbox'[r] = inbox[r]
         /\ UnderWay(q) > 0
         /\ \/ /\ magic[q] /\ ~magic'[q]
               /\ UnderWay(q)' = UnderWay(q) /\ count'[q] = count[q]
            \/ /\ ~magic[q] /\ ~magic'[q] /\ inbox'[q] = inbox[q]
               /\ UnderWay(q)' = UnderWay(q) - 1
               /\ count'[q] = (count[q] + CountMod - 1) % CountMod
<1>1. /\ Replies(r)' = Replies(r) - (IF q = r THEN 1 ELSE 0)
      /\ Replies(q)' = Replies(q) - 1
  <2>1. replyport \in Seq(Req)
    BY DEF Types
  <2>2. \A p \in Req :
          Count(replyport', p) = Count(replyport, p) - (IF q = p THEN 1 ELSE 0)
    BY <2>1, CountTail
  <2>3. \A p : Replies(p) = Count(replyport, p) /\ Replies(p)' = Count(replyport', p)
    BY DEF Replies, Count
  <2> QED
    BY <2>2, <2>3
<1>2. Replies(r) \in Nat /\ Replies(q) \in Nat /\ Replies(q)' \in Nat
  <2>1. replyport' \in Seq(Req)
    BY HeadTailProperties DEF Types
  <2> QED
    <3>1. Count(replyport', q) \in Nat
      BY <2>1, CountType
    <3>2. Replies(q)' = Count(replyport', q)
      BY DEF Replies, Count
    <3> QED
      BY <3>1, <3>2, UnderWayType
<1>3. inbox \in [Req -> Nat] /\ hand \in [Req -> Nat]
  BY DEF Types
<1>4. DOMAIN count = Req /\ magic \in [Req -> BOOLEAN]
  BY DEF Types
<1>5. UnderWay(q) > 0
  BY <1>1, <1>2, <1>3 DEF UnderWay
<1>6. CASE magic[q]
  <2>1. /\ magic' = [magic EXCEPT ![q] = FALSE]
        /\ inbox' = [inbox EXCEPT ![q] = @ + 1]
        /\ UNCHANGED <<count, hand>>
    BY <1>6 DEF HandleReply
  <2>2. ~magic'[q] /\ (r # q => magic'[r] = magic[r])
    BY <1>4, <2>1
  <2>3. UnderWay(q)' = UnderWay(q)
    BY <1>1, <1>2, <1>3, <2>1 DEF UnderWay
  <2>4. r # q => UnderWay(r)' = UnderWay(r) /\ inbox'[r] = inbox[r]
    BY <1>1, <1>2, <1>3, <2>1 DEF UnderWay
  <2> QED
    BY <1>5, <1>6, <2>1, <2>2, <2>3, <2>4
<1>7. CASE ~magic[q]
  <2>1. /\ count' = [count EXCEPT ![q] = (@ + CountMod - 1) % CountMod]
        /\ UNCHANGED <<magic, inbox, hand>>
    BY <1>7 DEF HandleReply, messages
  <2>2. UnderWay(q)' = UnderWay(q) - 1 /\ (r # q => UnderWay(r)' = UnderWay(r))
    BY <1>1, <1>2, <1>3, <2>1 DEF UnderWay
  <2> QED
    BY <1>4, <1>5, <1>7, <2>1, <2>2
<1> QED
  BY <1>6, <1>7

-----------------------------------------------------------------------------
(* What the steps do to the packets at the port *)

LEMMA HeadIsFirst ==
  ASSUME Types, fsport # <<>>
  PROVE  1 \in DOMAIN fsport /\ fsport[1] = Head(fsport)
<1>1. fsport \in Seq({"add", "remove", "change"} \X Req)
  BY DEF Types
<1> QED
  BY <1>1, LenProperties, EmptySeq

LEMMA PacketsKept ==
  ASSUME Types, Types', NEW r \in Req, PacketsInv(r), fsport' = fsport,
         prog'[r] = prog[r], UnderWay(r)' <= UnderWay(r)
  PROVE  PacketsInv(r)'
<1>1. UnderWay(r) \in Nat /\ UnderWay(r)' \in Nat /\ MaxMessages \in Nat
  BY UnderWayType, UnderWayTypeNext, ConstantAssumption
<1>2. DOMAIN fsport \subseteq Nat
  <2>1. fsport \in Seq({"add", "remove", "change"} \X Req)
    BY DEF Types
  <2> QED
    BY <2>1, LenProperties
<1> QED
  BY <1>1, <1>2 DEF PacketsInv

LEMMA PacketSent ==
  ASSUME Types, NEW r \in Req, PacketsInv(r), NEW q \in Req,
         NEW type \in {"add", "remove", "change"},
         fsport' = Append(fsport, <<type, q>>), UnderWay(r)' = UnderWay(r),
         prog'[r] = IF r = q /\ type # "change" THEN type ELSE prog[r],
         r = q /\ type # "change" => prog[r] \notin {"add", "remove"},
         r = q /\ type = "add" => UnderWay(r) < MaxMessages,
         r = q /\ type = "change" => UnderWay(r) + Len(fsport) + 1 <= MaxMessages
  PROVE  PacketsInv(r)'
<1>1. UnderWay(r) \in Nat /\ MaxMessages \in Nat
  BY UnderWayType, ConstantAssumption
<1> DEFINE n == Len(fsport)
<1>2. /\ n \in Nat /\ DOMAIN fsport = 1..n /\ DOMAIN fsport' = 1..n + 1
      /\ \A i \in 1..n : fsport'[i] = fsport[i]
      /\ fsport'[n + 1] = <<type, q>>
  BY DEF Types
<1> HIDE DEF n
<1>3. \A i \in 1..n : /\ r = q /\ type # "change" =>
                          fsport[i] \notin {<<"add", r>>, <<"remove", r>>}
                      /\ fsport[i] = <<"add", r>> => prog[r] = "add" /\ UnderWay(r) < MaxMessages
                      /\ fsport[i] = <<"remove", r>> => prog[r] = "remove"
                      /\ fsport[i] = <<"change", r>> => UnderWay(r) + i <= MaxMessages
  BY <1>2 DEF PacketsInv
<1>4. \A i, j \in 1..n :
        fsport[i] = fsport[j] /\ fsport[i] \in {<<"add", r>>, <<"remove", r>>} => i = j
  BY <1>2 DEF PacketsInv
<1> SUFFICES ASSUME NEW i \in 1..n + 1
             PROVE  /\ fsport'[i] = <<"add", r>> => prog'[r] = "add" /\ UnderWay(r) < MaxMessages
                    /\ fsport'[i] = <<"remove", r>> => prog'[r] = "remove"
                    /\ fsport'[i] = <<"change", r>> => UnderWay(r) + i <= MaxMessages
                    /\ \A j \in 1..n + 1 :
                         /\ fsport'[i] = fsport'[j]
                         /\ fsport'[i] \in {<<"add", r>>, <<"remove", r>>}
                         => i = j
  BY <1>2 DEF PacketsInv
<1>5. CASE i = n + 1
  BY <1>1, <1>2, <1>3, <1>5, n + 1 - 1 = n
<1>6. CASE i \in 1..n
  <2>1. /\ fsport'[i] = <<"add", r>> => prog'[r] = "add" /\ UnderWay(r) < MaxMessages
        /\ fsport'[i] = <<"remove", r>> => prog'[r] = "remove"
        /\ fsport'[i] = <<"change", r>> => UnderWay(r) + i <= MaxMessages
    BY <1>2, <1>3, <1>6
  <2>2. ASSUME NEW j \in 1..n + 1, fsport'[i] = fsport'[j],
               fsport'[i] \in {<<"add", r>>, <<"remove", r>>}
        PROVE  i = j
    <3>1. CASE j \in 1..n
      BY <1>2, <1>4, <1>6, <2>2, <3>1
    <3>2. CASE j = n + 1
      BY <1>2, <1>3, <1>6, <2>2, <3>2
    <3> QED
      BY <1>2, <3>1, <3>2
  <2> QED
    BY <2>1, <2>2
<1> QED
  BY <1>2, <1>5, <1>6

LEMMA PacketTaken ==
  ASSUME Types, Types', NEW r \in Req, PacketsInv(r),
         fsport # <<>>, fsport' = Tail(fsport),
         \/ prog'[r] = prog[r] /\ UnderWay(r)' = UnderWay(r)
         \/ /\ Head(fsport) = <<"change", r>> /\ prog'[r] = prog[r]
            /\ prog[r] # "add" /\ UnderWay(r)' <= UnderWay(r) + 1
         \/ Head(fsport) = <<"add", r>> /\ UnderWay(r)' <= UnderWay(r) + 1
         \/ Head(fsport) = <<"remove", r>> /\ UnderWay(r)' = UnderWay(r)
  PROVE  PacketsInv(r)'
<1>1. UnderWay(r) \in Nat /\ UnderWay(r)' \in Nat /\ MaxMessages \in Nat
  BY UnderWayType, UnderWayTypeNext, ConstantAssumption
<1>2. /\ DOMAIN fsport = 1..Len(fsport) /\ DOMAIN fsport' = 1..Len(fsport) - 1
      /\ Len(fsport) \in Nat /\ 1 \in DOMAIN fsport /\ Head(fsport) = fsport[1]
      /\ \A i \in DOMAIN fsport' : i + 1 \in DOMAIN fsport /\ fsport'[i] = fsport[i + 1]
                                   /\ i \in Nat \ {0}
  <2>1. fsport \in Seq({"add", "remove", "change"} \X Req)
    BY DEF Types
  <2> QED
    BY <2>1, LenProperties, HeadTailProperties, EmptySeq
<1> SUFFICES ASSUME NEW i \in DOMAIN fsport'
             PROVE  /\ fsport'[i] = <<"add", r>> => prog'[r] = "add" /\ UnderWay(r)' < MaxMessages
                    /\ fsport'[i] = <<"remove", r>> => prog'[r] = "remove"
                    /\ fsport'[i] = <<"change", r>> => UnderWay(r)' + i <= MaxMessages
                    /\ \A j \in DOMAIN fsport' :
                         /\ fsport'[i] = fsport'[j]
                         /\ fsport'[i] \in {<<"add", r>>, <<"remove", r>>}
                         => i = j
  BY DEF PacketsInv
<1>3. \A j \in DOMAIN fsport' :
        /\ fsport'[i] = fsport'[j]
        /\ fsport'[i] \in {<<"add", r>>, <<"remove", r>>}
        => i = j
  <2>1. \A j \in DOMAIN fsport' :
        /\ fsport'[i] = fsport'[j]
        /\ fsport'[i] \in {<<"add", r>>, <<"remove", r>>}
        => i + 1 = j + 1
    <3>1. fsport'[i] = fsport[i + 1] /\ i + 1 \in DOMAIN fsport
          /\ \A j \in DOMAIN fsport' : fsport'[j] = fsport[j + 1] /\ j + 1 \in DOMAIN fsport
      BY <1>2
    <3>2. \A k \in DOMAIN fsport :
            /\ fsport[i + 1] = fsport[k]
            /\ fsport[i + 1] \in {<<"add", r>>, <<"remove", r>>}
            => i + 1 = k
      BY <3>1, Zenon DEF PacketsInv
    <3> QED
      BY <3>1, <3>2, Zenon
  <2> QED
    BY <1>2, <2>1
<1>4. fsport'[i] = <<"change", r>> => UnderWay(r)' + i <= MaxMessages
  <2>1. fsport'[i] = <<"change", r>> => UnderWay(r) + (i + 1) <= MaxMessages
    BY <1>2 DEF PacketsInv
  <2> QED
    BY <1>1, <1>2, <2>1
<1>5. ASSUME fsport'[i] \in {<<"add", r>>, <<"remove", r>>}
      PROVE  Head(fsport) \notin {<<"add", r>>, <<"remove", r>>}
  <2>1. fsport[1] # fsport[i + 1]
    BY <1>2, <1>5 DEF PacketsInv
  <2>2. /\ fsport[i + 1] = <<"add", r>> => prog[r] = "add"
        /\ fsport[i + 1] = <<"remove", r>> => prog[r] = "remove"
        /\ fsport[1] = <<"add", r>> => prog[r] = "add"
        /\ fsport[1] = <<"remove", r>> => prog[r] = "remove"
    BY <1>2, Zenon DEF PacketsInv
  <2> QED
    BY <1>2, <1>5, <2>1, <2>2
<1>6. fsport'[i] = <<"add", r>> => prog'[r] = "add" /\ UnderWay(r)' < MaxMessages
  <2>1. fsport'[i] = <<"add", r>> => prog[r] = "add" /\ UnderWay(r) < MaxMessages
    BY <1>2 DEF PacketsInv
  <2> QED
    BY <1>5, <2>1
<1>7. fsport'[i] = <<"remove", r>> => prog'[r] = "remove"
  <2>1. fsport'[i] = <<"remove", r>> => prog[r] = "remove"
    BY <1>2 DEF PacketsInv
  <2> QED
    BY <1>5, <2>1
<1> QED
  BY <1>3, <1>4, <1>6, <1>7

-----------------------------------------------------------------------------
(* Every step keeps the invariant of every request *)

\* A step that does nothing to r but move its messages.
LEMMA RequestKept ==
  ASSUME NEW r \in Req, RequestInv(r),
         UnderWay(r)' = UnderWay(r), count'[r] = count[r], magic'[r] = magic[r],
         prog'[r] = prog[r], prog[r] = "off" => inbox'[r] = inbox[r],
         r \in node' => r \in node /\ pc' \notin {"dying", "gone"}
  PROVE  RequestInv(r)'
  BY DEF RequestInv

LEMMA ProgramStep ==
  ASSUME IInv, Types', NEW q \in Req, NEW r \in Req,
         \/ StartNotify(q) \/ ChangeObject(q) \/ Take(q) \/ Reply(q)
         \/ EndNotify(q) \/ ReplyAll(q)
  PROVE  PacketsInv(r)' /\ RequestInv(r)'
<1>1. Types /\ PacketsInv(r) /\ RequestInv(r)
  BY DEF IInv
<1>2. prog \in [Req -> {"off", "add", "on", "refused", "remove", "clean"}]
  BY <1>1 DEF Types
<1>3. UnderWay(r) \in Nat
  BY <1>1, UnderWayType
<1>4. CASE StartNotify(q)
  <2>1. /\ prog[q] = "off" /\ prog' = [prog EXCEPT ![q] = "add"]
        /\ UnderWay(q) < MaxMessages /\ fsport' = Append(fsport, <<"add", q>>)
        /\ UNCHANGED <<node, count, magic, inbox, hand, replyport, pc>>
    BY <1>4 DEF StartNotify, Send, requests, messages
  <2>2. UnderWay(r)' = UnderWay(r)
    BY <1>1, <2>1, UnderWayKept
  <2>3. PacketsInv(r)'
    BY <1>1, <1>2, <2>1, <2>2, PacketSent
  <2>4. RequestInv(r)'
    BY <1>1, <1>2, <2>1, <2>2 DEF RequestInv
  <2> QED
    BY <2>3, <2>4
<1>5. CASE ChangeObject(q)
  <2>1. /\ UnderWay(q) + Len(fsport) < MaxMessages
        /\ fsport' = Append(fsport, <<"change", q>>)
        /\ UNCHANGED <<prog, node, count, magic, inbox, hand, replyport, pc>>
    BY <1>5 DEF ChangeObject, Send, requests, messages
  <2>2. UnderWay(r)' = UnderWay(r)
    BY <1>1, <2>1, UnderWayKept
  <2>3. PacketsInv(r)'
    <3>1. r = q => UnderWay(r) + Len(fsport) + 1 <= MaxMessages
      <4>1. Len(fsport) \in Nat /\ MaxMessages \in Nat
        BY <1>1, LenProperties, ConstantAssumption DEF Types
      <4> QED
        BY <1>3, <2>1, <4>1
    <3> QED
      BY <1>1, <2>1, <2>2, <3>1, PacketSent
  <2>4. RequestInv(r)'
    BY <1>1, <2>1, <2>2, RequestKept DEF RequestInv
  <2> QED
    BY <2>3, <2>4
<1>6. CASE Take(q)
  <2>1. UnderWay(r)' = UnderWay(r)
    BY <1>1, <1>6, TakeMoves
  <2>2. /\ prog[q] = "on"
        /\ UNCHANGED <<prog, node, count, magic, fsport, pc>>
        /\ inbox' = inbox \/ inbox' = [inbox EXCEPT ![q] = @ - 1]
    BY <1>6, Zenon DEF Take, requests
  <2>3. PacketsInv(r)'
    BY <1>1, <1>3, <2>1, <2>2, PacketsKept
  <2>4. RequestInv(r)'
    <3>1. prog[r] = "off" => inbox'[r] = inbox[r]
      BY <1>1, <2>2 DEF Types
    <3> QED
      BY <1>1, <2>1, <2>2, <3>1, RequestKept DEF RequestInv
  <2> QED
    BY <2>3, <2>4
<1>7. CASE Reply(q)
  <2>1. UnderWay(r)' = UnderWay(r)
    BY <1>1, <1>7, ReplyMoves
  <2>2. UNCHANGED <<prog, node, count, magic, inbox, fsport, pc>>
    BY <1>7 DEF Reply, requests
  <2>3. PacketsInv(r)'
    BY <1>1, <1>3, <2>1, <2>2, PacketsKept
  <2>4. RequestInv(r)'
    BY <1>1, <2>1, <2>2, RequestKept DEF RequestInv
  <2> QED
    BY <2>3, <2>4
<1>8. CASE EndNotify(q)
  <2>1. /\ prog[q] = "on" /\ prog' = [prog EXCEPT ![q] = "remove"] /\ q \in MayEnd
        /\ fsport' = Append(fsport, <<"remove", q>>)
        /\ UNCHANGED <<node, count, magic, inbox, hand, replyport, pc>>
    BY <1>8 DEF EndNotify, Send, requests, messages
  <2>2. UnderWay(r)' = UnderWay(r)
    BY <1>1, <2>1, UnderWayKept
  <2>3. PacketsInv(r)'
    BY <1>1, <1>2, <2>1, <2>2, PacketSent
  <2>4. RequestInv(r)'
    BY <1>1, <1>2, <2>1, <2>2 DEF RequestInv
  <2> QED
    BY <2>3, <2>4
<1>9. CASE ReplyAll(q)
  <2>1. UnderWay(r)' = UnderWay(r)
    BY <1>1, <1>9, ReplyAllMoves
  <2>2. /\ prog[q] = "clean" /\ prog' = [prog EXCEPT ![q] = "off"]
        /\ inbox' = [inbox EXCEPT ![q] = 0]
        /\ UNCHANGED <<node, count, magic, hand, fsport, pc>>
    BY <1>9 DEF ReplyAll, requests
  <2>3. inbox \in [Req -> Nat]
    BY <1>1 DEF Types
  <2>4. PacketsInv(r)'
    <3>1. CASE r = q
      <4>1. \A i \in DOMAIN fsport : fsport[i] \notin {<<"add", r>>, <<"remove", r>>}
        BY <1>1, <2>2, <3>1 DEF PacketsInv
      <4> QED
        BY <1>1, <2>1, <2>2, <4>1 DEF PacketsInv
    <3>2. CASE r # q
      BY <1>1, <1>2, <1>3, <2>1, <2>2, <3>2, PacketsKept
    <3> QED
      BY <3>1, <3>2
  <2>5. RequestInv(r)'
    <3>1. CASE r = q
      BY <1>1, <1>2, <2>1, <2>2, <2>3, <3>1 DEF RequestInv
    <3>2. CASE r # q
      BY <1>1, <1>2, <2>1, <2>2, <2>3, <3>2, RequestKept DEF RequestInv
    <3> QED
      BY <3>1, <3>2
  <2> QED
    BY <2>4, <2>5
<1> QED
  BY <1>4, <1>5, <1>6, <1>7, <1>8, <1>9

LEMMA AddStep ==
  ASSUME IInv, Types', NEW q \in Req, FbxAddNotify(q), pc = "packets", UNCHANGED pc,
         NEW r \in Req
  PROVE  PacketsInv(r)' /\ RequestInv(r)'
<1> USE ConstantAssumption
<1>1. Types /\ PacketsInv(r) /\ RequestInv(r) /\ PacketsInv(q) /\ RequestInv(q)
  BY DEF IInv
<1>2. /\ prog \in [Req -> {"off", "add", "on", "refused", "remove", "clean"}]
      /\ count \in [Req -> 0..CountMod - 1]
  BY <1>1 DEF Types
<1>3. UnderWay(q) \in Nat
  BY <1>1, UnderWayType
<1>4. /\ fsport # <<>> /\ Head(fsport) = <<"add", q>> /\ fsport' = Tail(fsport)
      /\ UNCHANGED replyport
  BY DEF FbxAddNotify, IsNext
<1>5. prog[q] = "add" /\ UnderWay(q) < MaxMessages
  <2>1. 1 \in DOMAIN fsport /\ fsport[1] = <<"add", q>>
    BY <1>1, <1>4, HeadIsFirst
  <2> QED
    BY <1>1, <2>1 DEF PacketsInv
<1>6. q \notin node
  BY <1>1, <1>5 DEF RequestInv
<1>7. PICK ok \in BOOLEAN : /\ Started(q, ok)
                            /\ \/ /\ count' = [count EXCEPT ![q] = 0]
                                  /\ UNCHANGED <<magic, messages>>
                               \/ ok /\ FbxDoNotifyRequest(q, 0)
  BY DEF FbxAddNotify
<1>8. /\ prog' = [prog EXCEPT ![q] = IF ok THEN "on" ELSE "refused"]
      /\ r # q => (r \in node' <=> r \in node)
      /\ q \in node' <=> ok
  BY <1>6, <1>7 DEF Started
<1>9. /\ r # q => /\ UnderWay(r)' = UnderWay(r) /\ count'[r] = count[r]
                  /\ magic'[r] = magic[r] /\ inbox'[r] = inbox[r]
      /\ \/ UnderWay(q)' = UnderWay(q) /\ count'[q] = 0
         \/ ok /\ UnderWay(q)' = UnderWay(q) + 1 /\ count'[q] = 1
      /\ magic'[q] = magic[q] \/ q \in WaitReply
  <2>1. CASE count' = [count EXCEPT ![q] = 0] /\ UNCHANGED <<magic, messages>>
    BY <1>1, <1>2, <1>4, <2>1, UnderWayKept DEF messages
  <2>2. CASE ok /\ FbxDoNotifyRequest(q, 0)
    <3>1. (0 + 1) % CountMod = 1
      BY <1>3, <1>5, ModSmall
    <3> QED
      BY <1>1, <1>4, <2>2, <3>1, NotifyAdds
  <2> QED
    BY <1>7, <2>1, <2>2
<1>10. PacketsInv(r)'
  BY <1>1, <1>2, <1>3, <1>4, <1>8, <1>9, PacketTaken
<1>11. CASE r = q
  BY <1>1, <1>2, <1>3, <1>5, <1>8, <1>9, <1>10, <1>11 DEF RequestInv
<1>12. CASE r # q
  BY <1>1, <1>2, <1>8, <1>9, <1>10, <1>12, RequestKept
<1> QED
  BY <1>11, <1>12

LEMMA RemoveStep ==
  ASSUME IInv, Types', NEW q \in Req, FbxRemoveNotify(q), UNCHANGED pc, NEW r \in Req
  PROVE  PacketsInv(r)' /\ RequestInv(r)'
<1>1. Types /\ PacketsInv(r) /\ RequestInv(r) /\ PacketsInv(q) /\ RequestInv(q)
  BY DEF IInv
<1>2. /\ prog \in [Req -> {"off", "add", "on", "refused", "remove", "clean"}]
      /\ count \in [Req -> 0..CountMod - 1]
  BY <1>1 DEF Types
<1>3. UnderWay(r) \in Nat
  BY <1>1, UnderWayType
<1>4. /\ fsport # <<>> /\ Head(fsport) = <<"remove", q>> /\ fsport' = Tail(fsport)
      /\ node' = node \ {q} /\ prog' = [prog EXCEPT ![q] = "clean"]
      /\ count' = [count EXCEPT ![q] = 0]
      /\ UNCHANGED <<magic, inbox, hand, replyport>>
  BY DEF FbxRemoveNotify, IsNext, messages
<1>5. UnderWay(r)' = UnderWay(r)
  BY <1>1, <1>4, UnderWayKept
<1>6. prog[q] = "remove"
  <2>1. 1 \in DOMAIN fsport /\ fsport[1] = <<"remove", q>>
    BY <1>1, <1>4, HeadIsFirst
  <2> QED
    BY <1>1, <2>1 DEF PacketsInv
<1>7. PacketsInv(r)'
  BY <1>1, <1>2, <1>3, <1>4, <1>5, PacketTaken
<1>8. RequestInv(r)'
  BY <1>1, <1>2, <1>3, <1>4, <1>5, <1>6 DEF RequestInv
<1> QED
  BY <1>7, <1>8

LEMMA ChangeStep ==
  ASSUME IInv, Types', NEW q \in Req, FbxDoNotify(q), UNCHANGED pc, NEW r \in Req
  PROVE  PacketsInv(r)' /\ RequestInv(r)'
<1> USE ConstantAssumption
<1>1. Types /\ PacketsInv(r) /\ RequestInv(r) /\ PacketsInv(q) /\ RequestInv(q)
  BY DEF IInv
<1>2. count \in [Req -> 0..CountMod - 1]
  BY <1>1 DEF Types
<1>3. UnderWay(q) \in Nat /\ UnderWay(r) \in Nat
  BY <1>1, UnderWayType
<1>4. /\ fsport # <<>> /\ Head(fsport) = <<"change", q>> /\ fsport' = Tail(fsport)
      /\ UNCHANGED <<node, replyport, prog>>
  BY DEF FbxDoNotify, IsNext
<1>5. UnderWay(q) + 1 <= MaxMessages
  <2>1. 1 \in DOMAIN fsport /\ fsport[1] = <<"change", q>>
    BY <1>1, <1>4, HeadIsFirst
  <2> QED
    BY <1>1, <2>1 DEF PacketsInv
<1>6. CASE q \notin node
  <2>1. UNCHANGED <<count, magic, inbox, hand>>
    BY <1>6 DEF FbxDoNotify, messages
  <2>2. UnderWay(r)' = UnderWay(r)
    BY <1>1, <1>4, <2>1, UnderWayKept
  <2>3. PacketsInv(r)'
    BY <1>1, <1>4, <2>2, PacketTaken
  <2>4. RequestInv(r)'
    BY <1>1, <1>4, <2>1, <2>2, RequestKept DEF RequestInv
  <2> QED
    BY <2>3, <2>4
<1>7. CASE q \in node
  <2>1. FbxDoNotifyRequest(q, count[q])
    BY <1>7 DEF FbxDoNotify
  <2>2. prog[q] \in {"on", "remove"}
    BY <1>1, <1>7 DEF RequestInv
  <2>3. count[q] \in 0..CountMod - 1
    BY <1>2
  <2>4. /\ r # q => /\ UnderWay(r)' = UnderWay(r) /\ count'[r] = count[r]
                    /\ magic'[r] = magic[r] /\ inbox'[r] = inbox[r]
        /\ \/ /\ UnderWay(q)' = UnderWay(q) /\ count'[q] = count[q]
              /\ magic'[q] = magic[q] \/ q \in WaitReply
           \/ /\ UnderWay(q)' = UnderWay(q) + 1
              /\ count'[q] = (count[q] + 1) % CountMod
              /\ magic'[q] = magic[q]
              /\ q \in WaitReply => count[q] = 0
    BY <1>1, <1>4, <2>1, <2>3, NotifyAdds
  <2>5. PacketsInv(r)'
    BY <1>1, <1>3, <1>4, <2>2, <2>4, PacketTaken
  <2>6. CASE r = q
    <3>1. q \notin MayEnd => count[q] = UnderWay(q) /\ (count[q] + 1) % CountMod = UnderWay(q) + 1
      <4>1. q \notin MayEnd => count[q] = UnderWay(q)
        BY <1>1, <1>7 DEF RequestInv
      <4>2. UnderWay(q) + 1 \in Nat /\ UnderWay(q) + 1 < CountMod
        BY <1>3, <1>5
      <4> QED
        BY <4>1, <4>2, ModSmall
    <3>2. \/ /\ UnderWay(q)' = UnderWay(q) /\ count'[q] = count[q]
             /\ magic'[q] = magic[q] \/ q \in WaitReply
          \/ /\ UnderWay(q)' = UnderWay(q) + 1 /\ magic'[q] = magic[q]
             /\ q \notin MayEnd => count'[q] = UnderWay(q) + 1 /\ count[q] = UnderWay(q)
             /\ q \in WaitReply => count[q] = 0
      BY <2>4, <3>1
    <3>3. /\ UnderWay(r)' <= MaxMessages
          /\ r \in node' => prog'[r] \in {"on", "remove"} /\ pc' \notin {"dying", "gone"}
          /\ magic'[r] => r \in WaitReply
      <4>1. UnderWay(r)' <= MaxMessages
        BY <1>3, <1>5, <2>6, <3>2
      <4>2. magic[r] => r \in WaitReply
        BY <1>1 DEF RequestInv
      <4>3. magic'[r] = magic[r] \/ r \in WaitReply
        BY <2>6, <3>2, Zenon
      <4>4. magic'[r] => r \in WaitReply
        BY <4>2, <4>3, Zenon
      <4> QED
        BY <1>1, <1>4, <2>6, <4>1, <4>4 DEF RequestInv
    <3>4. /\ r \notin MayEnd => prog'[r] \notin {"remove", "clean"}
          /\ prog'[r] \notin {"off", "add", "refused"}
      BY <1>1, <1>4, <2>2, <2>6 DEF RequestInv
    <3>5. r \in node' \ MayEnd => count'[r] = UnderWay(r)'
      <4>1. r \in node \ MayEnd => count[r] = UnderWay(r)
        BY <1>1 DEF RequestInv
      <4> QED
        BY <1>4, <2>6, <3>2, <4>1
    <3>6. r \in WaitReply \ MayEnd => UnderWay(r)' <= 1
      <4>1. r \in WaitReply \ MayEnd => UnderWay(r) <= 1
        BY <1>1 DEF RequestInv
      <4> QED
        BY <1>3, <2>6, <3>2, <4>1
    <3> QED
      BY <2>5, <3>3, <3>4, <3>5, <3>6 DEF RequestInv
  <2>7. CASE r # q
    <3>1. /\ UnderWay(r)' = UnderWay(r) /\ count'[r] = count[r]
          /\ magic'[r] = magic[r] /\ inbox'[r] = inbox[r]
      BY <2>4, <2>7
    <3>2. (r \in node' => r \in node /\ pc' \notin {"dying", "gone"}) /\ prog'[r] = prog[r]
      BY <1>1, <1>4 DEF RequestInv
    <3> QED
      BY <1>1, <2>5, <3>1, <3>2, RequestKept
  <2> QED
    BY <2>5, <2>6, <2>7
<1> QED
  BY <1>6, <1>7

LEMMA ReplyStep ==
  ASSUME IInv, Types', FbxHandleNotifyReplies, NEW r \in Req
  PROVE  PacketsInv(r)' /\ RequestInv(r)'
<1> USE ConstantAssumption
<1>1. Types /\ RequestInv(r) /\ PacketsInv(r)
  BY DEF IInv
<1>2. UNCHANGED <<prog, node, fsport>> /\ (r \in node => pc' \notin {"dying", "gone"})
  BY <1>1 DEF FbxHandleNotifyReplies, RequestInv
<1>3. UnderWay(r) \in Nat
  BY <1>1, UnderWayType
<1>4. CASE replyport # <<>>
  <2>1. HandleReply(Head(replyport)) /\ replyport' = Tail(replyport)
    BY <1>4 DEF FbxHandleNotifyReplies
  <2>2. PICK q \in Req : q = Head(replyport)
    <3>1. Head(replyport) \in Req
      BY <1>1, <1>4, HeadTailProperties DEF Types
    <3> QED
      BY <3>1
  <2>3. RequestInv(q) /\ UnderWay(q) \in Nat
    BY <1>1, UnderWayType DEF IInv
  <2>4. /\ r # q => /\ UnderWay(r)' = UnderWay(r) /\ count'[r] = count[r]
                    /\ magic'[r] = magic[r] /\ inbox'[r] = inbox[r]
        /\ UnderWay(q) > 0
        /\ \/ /\ magic[q] /\ ~magic'[q]
              /\ UnderWay(q)' = UnderWay(q) /\ count'[q] = count[q]
           \/ /\ ~magic[q] /\ ~magic'[q] /\ inbox'[q] = inbox[q]
              /\ UnderWay(q)' = UnderWay(q) - 1
              /\ count'[q] = (count[q] + CountMod - 1) % CountMod
    BY <1>1, <1>4, <2>1, <2>2, HandleReplyMoves
  <2>5. PacketsInv(r)'
    <3>1. UnderWay(r)' <= UnderWay(r)
      BY <1>3, <2>3, <2>4
    <3>2. prog'[r] = prog[r] /\ fsport' = fsport
      BY <1>2
    <3> QED
      BY <1>1, <3>1, <3>2, PacketsKept
  <2>6. CASE r = q
    <3>1. q \in node \ MayEnd => (count[q] + CountMod - 1) % CountMod = UnderWay(q) - 1
      <4>1. ASSUME q \in node \ MayEnd PROVE count[q] = UnderWay(q)
        BY <2>3, <4>1 DEF RequestInv
      <4>2. UnderWay(q) \in Nat \ {0} /\ UnderWay(q) < CountMod
        BY <2>3, <2>4 DEF RequestInv
      <4> QED
        BY <4>1, <4>2, ModPredecessor
    <3>2. /\ UnderWay(q) > 0
          /\ \/ /\ magic[q] /\ ~magic'[q]
                /\ UnderWay(q)' = UnderWay(q) /\ count'[q] = count[q]
             \/ /\ ~magic[q] /\ ~magic'[q] /\ inbox'[q] = inbox[q]
                /\ UnderWay(q)' = UnderWay(q) - 1
                /\ q \in node \ MayEnd => count'[q] = UnderWay(q) - 1
      BY <2>4, <3>1
    <3>3. /\ UnderWay(r)' <= UnderWay(r)
          /\ r \in node \ MayEnd => count'[r] = UnderWay(r)'
      <4>1. r \in node \ MayEnd => count[r] = UnderWay(r)
        BY <1>1 DEF RequestInv
      <4> QED
        BY <2>3, <2>6, <3>2, <4>1
    <3>4. ~magic'[r] /\ (r \in WaitReply \/ inbox'[r] = inbox[r])
      <4>1. magic[q] => q \in WaitReply
        BY <2>3 DEF RequestInv
      <4> QED
        BY <2>6, <3>2, <4>1, Zenon
    <3>5. UnderWay(r)' \in Nat /\ prog'[r] = prog[r]
      BY <1>2, UnderWayTypeNext
    <3> QED
      BY <1>1, <1>2, <1>3, <2>5, <3>3, <3>4, <3>5 DEF RequestInv
  <2>7. CASE r # q
    <3>1. /\ UnderWay(r)' = UnderWay(r) /\ count'[r] = count[r]
          /\ magic'[r] = magic[r] /\ inbox'[r] = inbox[r]
      BY <2>4, <2>7
    <3>2. (r \in node' => r \in node /\ pc' \notin {"dying", "gone"}) /\ prog'[r] = prog[r]
      BY <1>2
    <3> QED
      BY <1>1, <2>5, <3>1, <3>2, RequestKept
  <2> QED
    BY <2>5, <2>6, <2>7
<1>5. CASE replyport = <<>>
  <2>1. UNCHANGED <<count, magic, inbox, hand, replyport>>
    BY <1>5 DEF FbxHandleNotifyReplies, messages
  <2>2. UnderWay(r)' = UnderWay(r)
    BY <1>1, <2>1, UnderWayKept
  <2>3. PacketsInv(r)'
    BY <1>1, <1>2, <1>3, <2>2, PacketsKept
  <2>4. RequestInv(r)'
    BY <1>1, <1>2, <2>1, <2>2, RequestKept
  <2> QED
    BY <2>3, <2>4
<1> QED
  BY <1>4, <1>5

LEMMA LockHandlerStep ==
  ASSUME IInv, Types', FbxLockHandlerProc, NEW r \in Req
  PROVE  PacketsInv(r)' /\ RequestInv(r)'
<1>1. Types /\ RequestInv(r) /\ PacketsInv(r)
  BY DEF IInv
<1>2. prog \in [Req -> {"off", "add", "on", "refused", "remove", "clean"}]
  BY <1>1 DEF Types
<1>3. PICK q \in Req :
        \/ IsNext("add", q) /\ prog' = [prog EXCEPT ![q] = "refused"]
        \/ IsNext("remove", q) /\ prog' = [prog EXCEPT ![q] = "clean"]
        \/ IsNext("change", q) /\ UNCHANGED prog
  BY DEF FbxLockHandlerProc
<1>4. pc \in {"dying", "gone"} /\ UNCHANGED <<node, magic, inbox, hand, replyport, pc>>
  BY DEF FbxLockHandlerProc, messages
<1>5. UnderWay(r)' = UnderWay(r) /\ UnderWay(r) \in Nat
  BY <1>1, <1>4, UnderWayKept, UnderWayType
<1>6. fsport # <<>> /\ fsport' = Tail(fsport)
  BY <1>3 DEF IsNext
<1>7. \/ prog'[r] = prog[r]
      \/ Head(fsport) = <<"add", r>> /\ prog'[r] = "refused"
      \/ Head(fsport) = <<"remove", r>> /\ prog'[r] = "clean"
  BY <1>2, <1>3 DEF IsNext
<1>8. 1 \in DOMAIN fsport /\ fsport[1] = Head(fsport)
  BY <1>1, <1>6, HeadIsFirst
<1>9. PacketsInv(r)'
  BY <1>1, <1>5, <1>6, <1>7, PacketTaken
<1>10. r \notin node
  BY <1>1, <1>4 DEF RequestInv
<1>11. /\ Head(fsport) = <<"add", r>> => prog[r] = "add"
       /\ Head(fsport) = <<"remove", r>> => prog[r] = "remove"
  BY <1>1, <1>8 DEF PacketsInv
<1>12. RequestInv(r)'
  BY <1>1, <1>4, <1>5, <1>7, <1>10, <1>11 DEF RequestInv
<1> QED
  BY <1>9, <1>12

LEMMA IInvStep == IInv /\ [Next]_vars => IInv'
<1> SUFFICES ASSUME IInv, [Next]_vars PROVE IInv'
  OBVIOUS
<1>1. Types'
  BY TypesStep DEF IInv
<1> SUFFICES ASSUME NEW r \in Req PROVE PacketsInv(r)' /\ RequestInv(r)'
  BY <1>1 DEF IInv
<1>2. Types /\ PacketsInv(r) /\ RequestInv(r)
  BY DEF IInv
<1>3. UnderWay(r) \in Nat
  BY <1>2, UnderWayType
<1>4. ASSUME UNCHANGED <<prog, count, magic, inbox, hand, replyport, fsport>>,
             r \in node' => r \in node /\ pc' \notin {"dying", "gone"}
      PROVE  PacketsInv(r)' /\ RequestInv(r)'
  <2>1. UnderWay(r)' = UnderWay(r)
    BY <1>2, <1>4, UnderWayKept
  <2> QED
    BY <1>1, <1>2, <1>3, <1>4, <2>1, PacketsKept, RequestKept
<1>5. CASE Wait
  BY <1>2, <1>4, <1>5 DEF Wait, requests, messages
<1>6. CASE FbxHandlePackets
  <2>1. CASE fsport # <<>>
    <3>1. PICK q \in Req : FbxAddNotify(q) \/ FbxRemoveNotify(q) \/ FbxDoNotify(q)
      BY <1>6, <2>1 DEF FbxHandlePackets
    <3>2. pc = "packets" /\ UNCHANGED pc
      BY <1>6, <2>1 DEF FbxHandlePackets
    <3> QED
      BY <1>1, <3>1, <3>2, AddStep, RemoveStep, ChangeStep
  <2>2. CASE fsport = <<>>
    BY <1>2, <1>4, <1>6, <2>2 DEF FbxHandlePackets, requests, messages
  <2> QED
    BY <2>1, <2>2
<1>7. CASE FbxHandleNotifyReplies
  BY <1>1, <1>7, ReplyStep
<1>8. CASE FbxLockHandlerProc
  BY <1>1, <1>8, LockHandlerStep
<1>9. CASE FbxDie
  BY <1>4, <1>9 DEF FbxDie, messages
<1>10. CASE UNCHANGED vars
  BY <1>2, <1>4, <1>10 DEF vars, requests, messages, RequestInv
<1>11. ASSUME NEW q \in Req,
              \/ StartNotify(q) \/ ChangeObject(q) \/ Take(q) \/ Reply(q)
              \/ EndNotify(q) \/ ReplyAll(q)
       PROVE  PacketsInv(r)' /\ RequestInv(r)'
  BY <1>1, <1>11, ProgramStep
<1> QED
  BY <1>5, <1>6, <1>7, <1>8, <1>9, <1>10, <1>11 DEF Next, Handler

LEMMA IInvInit == Init => IInv
<1> SUFFICES ASSUME Init PROVE IInv
  OBVIOUS
<1>1. Types
  BY ConstantAssumption DEF Init, Types
<1>2. ASSUME NEW r \in Req PROVE UnderWay(r) = 0
  <2>1. {i \in DOMAIN replyport : replyport[i] = r} = {}
    BY DEF Init
  <2> QED
    BY <2>1, FS_EmptySet DEF Init, UnderWay, Replies
<1>3. ASSUME NEW r \in Req PROVE PacketsInv(r) /\ RequestInv(r)
  BY <1>2, ConstantAssumption DEF Init, PacketsInv, RequestInv
<1> QED
  BY <1>1, <1>3 DEF IInv

-----------------------------------------------------------------------------
(* The theorems *)

\* The invariant of every reachable state.
THEOREM Invariance == Spec => []IInv
  BY IInvInit, IInvStep, PTL DEF Spec

\* All variables keep their types; no request has more messages under way than
\* the bound of the model says.
THEOREM TypeCorrect == Spec => []TypeOK
<1>1. IInv => TypeOK
  <2> SUFFICES ASSUME IInv PROVE inbox \in [Req -> 0..MaxMessages]
                                 /\ hand \in [Req -> 0..MaxMessages]
    BY DEF IInv, Types, TypeOK
  <2>1. Types
    BY DEF IInv
  <2>2. ASSUME NEW r \in Req
        PROVE  inbox[r] \in 0..MaxMessages /\ hand[r] \in 0..MaxMessages
    BY <2>1, UnderWayType, ConstantAssumption DEF IInv, RequestInv, UnderWay, Types
  <2> QED
    BY <2>1, <2>2 DEF Types
<1> QED
  BY <1>1, Invariance, PTL

\* nr_MsgCount of a request that is not ended is the number of its messages
\* that have not come back, whatever the programs and the handler do when.
THEOREM CountIsUnderWayHolds == Spec => []CountIsUnderWay
<1>1. IInv => CountIsUnderWay
  <2> SUFFICES ASSUME IInv, NEW r \in node \ MayEnd PROVE count[r] = UnderWay(r)
    BY DEF CountIsUnderWay
  <2>1. r \in Req
    BY DEF IInv, Types
  <2> QED
    BY <2>1 DEF IInv, RequestInv
<1> QED
  BY <1>1, Invariance, PTL

\* A program with NRF_WAIT_REPLY has at most one message that it has not
\* replied.
THEOREM OneAtATimeHolds == Spec => []OneAtATime
<1>1. ASSUME IInv, NEW r \in WaitReply \ MayEnd PROVE inbox[r] + hand[r] <= 1
  <2>1. r \in Req
    BY ConstantAssumption
  <2>2. UnderWay(r) <= 1
    BY <1>1, <2>1 DEF IInv, RequestInv
  <2>3. inbox[r] \in Nat /\ hand[r] \in Nat /\ Replies(r) \in Nat
    BY <1>1, <2>1, UnderWayType DEF IInv, Types
  <2> QED
    BY <2>2, <2>3 DEF UnderWay
<1>2. IInv => OneAtATime
  BY <1>1 DEF OneAtATime
<1> QED
  BY <1>2, Invariance, PTL

\* After EndNotify no message about the request comes, unless it may be sent
\* again.
THEOREM OffIsSilentHolds == Spec => []OffIsSilent
<1>1. IInv => OffIsSilent
  <2> SUFFICES ASSUME IInv, NEW r \in Req \ (WaitReply \cap MayEnd), prog[r] = "off"
               PROVE  inbox[r] = 0
    BY DEF OffIsSilent
  <2>1. CASE r \notin WaitReply
    BY <2>1 DEF IInv, RequestInv
  <2>2. CASE r \notin MayEnd
    <3>1. UnderWay(r) = 0
      BY <2>2 DEF IInv, RequestInv
    <3>2. inbox[r] \in Nat /\ hand[r] \in Nat /\ Replies(r) \in Nat
      BY UnderWayType DEF IInv, Types
    <3> QED
      BY <3>1, <3>2 DEF UnderWay
  <2> QED
    BY <2>1, <2>2
<1> QED
  BY <1>1, Invariance, PTL

=============================================================================
