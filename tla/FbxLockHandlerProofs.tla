------------------------- MODULE FbxLockHandlerProofs -------------------------
(***************************************************************************)
(* Proofs about FbxLockHandler, for any locks and requests and whatever    *)
(* memory lacks: every object is answered for by the process whose port it *)
(* names, no packet is left behind but those that come late, and the two   *)
(* processes together give what FbxObjects promises.                       *)
(*                                                                         *)
(* A packet or an object to collect is at one of two ports, and a shutdown *)
(* moves what is at one of them to the other.  The first section says what *)
(* such moves do to the members of a queue.                                *)
(***************************************************************************)
EXTENDS FbxLockHandler, SequenceTheorems, TLAPS

-----------------------------------------------------------------------------
(* Queues *)

Has(s, x) == \E i \in DOMAIN s : s[i] = x

Once(s, x) == \A i, j \in DOMAIN s : s[i] = x /\ s[j] = x => i = j

\* Every y in s comes after some x.
Before(s, x, y) == \A i \in DOMAIN s : s[i] = y => \E j \in DOMAIN s : j < i /\ s[j] = x

LEMMA AppendMembers ==
  ASSUME NEW S, NEW s \in Seq(S), NEW e \in S, NEW x
  PROVE  /\ Has(Append(s, e), x) <=> Has(s, x) \/ x = e
         /\ Once(s, x) /\ ~(Has(s, x) /\ x = e) => Once(Append(s, e), x)
<1> DEFINE t == Append(s, e)
<1>1. /\ DOMAIN s = 1..Len(s) /\ DOMAIN t = 1..Len(s) + 1 /\ Len(s) \in Nat
      /\ t[Len(s) + 1] = e /\ \A i \in 1..Len(s) : t[i] = s[i]
  OBVIOUS
<1> HIDE DEF t
<1>2. Has(t, x) <=> Has(s, x) \/ x = e
  BY <1>1 DEF Has
<1>3. Once(s, x) /\ ~(Has(s, x) /\ x = e) => Once(t, x)
  <2> SUFFICES ASSUME Once(s, x), ~(Has(s, x) /\ x = e),
                      NEW i \in DOMAIN t, NEW j \in DOMAIN t, t[i] = x, t[j] = x
               PROVE  i = j
    BY DEF Once
  <2>1. CASE x = e
    <3>1. \A k \in 1..Len(s) : t[k] # x
      BY <1>1, <2>1 DEF Has
    <3> QED
      BY <1>1, <3>1
  <2>2. CASE x # e
    <3>1. i \in 1..Len(s) /\ j \in 1..Len(s) /\ s[i] = x /\ s[j] = x
      BY <1>1, <2>2
    <3> QED
      BY <1>1, <3>1 DEF Once
  <2> QED
    BY <2>1, <2>2
<1> QED
  BY <1>2, <1>3 DEF t

LEMMA AppendBefore ==
  ASSUME NEW S, NEW s \in Seq(S), NEW e \in S, NEW x, NEW y,
         Before(s, x, y), y = e => Has(s, x)
  PROVE  Before(Append(s, e), x, y)
<1> DEFINE t == Append(s, e)
<1>1. /\ DOMAIN s = 1..Len(s) /\ DOMAIN t = 1..Len(s) + 1 /\ Len(s) \in Nat
      /\ t[Len(s) + 1] = e /\ \A i \in 1..Len(s) : t[i] = s[i]
  OBVIOUS
<1> HIDE DEF t
<1> SUFFICES ASSUME NEW i \in DOMAIN t, t[i] = y
             PROVE  \E j \in DOMAIN t : j < i /\ t[j] = x
  BY DEF Before, t
<1>2. CASE i = Len(s) + 1
  <2>1. PICK j \in DOMAIN s : s[j] = x
    BY <1>1, <1>2 DEF Has
  <2> QED
    BY <1>1, <1>2, <2>1
<1>3. CASE i # Len(s) + 1
  <2>1. i \in DOMAIN s /\ s[i] = y
    BY <1>1, <1>3
  <2>2. PICK j \in DOMAIN s : j < i /\ s[j] = x
    BY <2>1 DEF Before
  <2> QED
    BY <1>1, <2>2
<1> QED
  BY <1>2, <1>3

LEMMA TailMembers ==
  ASSUME NEW S, NEW s \in Seq(S), s # <<>>, NEW x
  PROVE  /\ Has(s, Head(s))
         /\ Has(Tail(s), x) => Has(s, x)
         /\ Has(s, x) /\ x # Head(s) => Has(Tail(s), x)
         /\ Once(s, x) => Once(Tail(s), x)
         /\ Once(s, x) /\ x = Head(s) => ~Has(Tail(s), x)
<1> DEFINE t == Tail(s)
<1>1. /\ DOMAIN s = 1..Len(s) /\ DOMAIN t = 1..Len(s) - 1 /\ Len(s) \in Nat \ {0}
      /\ Head(s) = s[1] /\ \A i \in 1..Len(s) - 1 : t[i] = s[i + 1]
  BY HeadTailProperties, EmptySeq
<1> HIDE DEF t
<1>2. Has(s, Head(s))
  BY <1>1 DEF Has
<1>3. Has(t, x) => Has(s, x)
  <2> SUFFICES ASSUME NEW i \in DOMAIN t, t[i] = x PROVE Has(s, x)
    BY DEF Has
  <2>1. i + 1 \in DOMAIN s /\ s[i + 1] = x
    BY <1>1
  <2> QED
    BY <2>1 DEF Has
<1>4. Has(s, x) /\ x # Head(s) => Has(t, x)
  <2> SUFFICES ASSUME NEW i \in DOMAIN s, s[i] = x, x # Head(s) PROVE Has(t, x)
    BY DEF Has
  <2>1. i - 1 \in DOMAIN t /\ t[i - 1] = x
    BY <1>1
  <2> QED
    BY <2>1 DEF Has
<1>5. Once(s, x) => Once(t, x)
  <2> SUFFICES ASSUME Once(s, x), NEW i \in DOMAIN t, NEW j \in DOMAIN t, t[i] = x, t[j] = x
               PROVE  i = j
    BY DEF Once
  <2>1. i + 1 \in DOMAIN s /\ j + 1 \in DOMAIN s /\ s[i + 1] = x /\ s[j + 1] = x
    BY <1>1
  <2>2. i + 1 = j + 1
    BY <2>1 DEF Once
  <2> QED
    BY <1>1, <2>2
<1>6. Once(s, x) /\ x = Head(s) => ~Has(t, x)
  <2> SUFFICES ASSUME Once(s, x), s[1] = x, NEW i \in DOMAIN t, t[i] = x PROVE FALSE
    BY <1>1 DEF Has
  <2>1. i + 1 \in DOMAIN s /\ 1 \in DOMAIN s /\ s[i + 1] = x /\ i + 1 # 1
    BY <1>1
  <2> QED
    BY <2>1 DEF Once
<1> QED
  BY <1>2, <1>3, <1>4, <1>5, <1>6 DEF t

LEMMA TailBefore ==
  ASSUME NEW S, NEW s \in Seq(S), s # <<>>, NEW x, NEW y,
         Before(s, x, y)
  PROVE  /\ y # Head(s)
         /\ x # Head(s) => Before(Tail(s), x, y)
<1> DEFINE t == Tail(s)
<1>1. /\ DOMAIN s = 1..Len(s) /\ DOMAIN t = 1..Len(s) - 1 /\ Len(s) \in Nat \ {0}
      /\ Head(s) = s[1] /\ \A i \in 1..Len(s) - 1 : t[i] = s[i + 1]
  BY HeadTailProperties, EmptySeq
<1> HIDE DEF t
<1>2. y # Head(s)
  <2> SUFFICES ASSUME s[1] = y PROVE FALSE
    BY <1>1
  <2>1. 1 \in DOMAIN s /\ \A j \in DOMAIN s : ~(j < 1)
    BY <1>1
  <2> QED
    BY <2>1 DEF Before
<1>3. ASSUME x # Head(s), NEW i \in DOMAIN t, t[i] = y
      PROVE  \E j \in DOMAIN t : j < i /\ t[j] = x
  <2>1. i + 1 \in DOMAIN s /\ s[i + 1] = y
    BY <1>1, <1>3
  <2>2. PICK j \in DOMAIN s : j < i + 1 /\ s[j] = x
    BY <2>1 DEF Before
  <2>3. j - 1 \in DOMAIN t /\ j - 1 < i /\ t[j - 1] = x
    BY <1>1, <1>3, <2>2
  <2> QED
    BY <2>3
<1> QED
  BY <1>2, <1>3 DEF Before, t

LEMMA ConcatMembers ==
  ASSUME NEW S, NEW s \in Seq(S), NEW u \in Seq(S), NEW x
  PROVE  /\ Has(s \o u, x) <=> Has(s, x) \/ Has(u, x)
         /\ Once(s, x) /\ Once(u, x) /\ ~(Has(s, x) /\ Has(u, x)) => Once(s \o u, x)
<1> DEFINE t == s \o u
<1>1. /\ DOMAIN s = 1..Len(s) /\ DOMAIN u = 1..Len(u) /\ DOMAIN t = 1..Len(s) + Len(u)
      /\ Len(s) \in Nat /\ Len(u) \in Nat
      /\ \A i \in 1..Len(s) + Len(u) : t[i] = IF i <= Len(s) THEN s[i] ELSE u[i - Len(s)]
  BY ConcatProperties
<1> HIDE DEF t
<1>2. ASSUME NEW i \in DOMAIN t, t[i] = x
      PROVE  \/ i \in DOMAIN s /\ s[i] = x
             \/ i - Len(s) \in DOMAIN u /\ u[i - Len(s)] = x
  BY <1>1, <1>2
<1>3. Has(t, x) => Has(s, x) \/ Has(u, x)
  BY <1>2 DEF Has
<1>4. Has(s, x) => Has(t, x)
  BY <1>1 DEF Has
<1>5. Has(u, x) => Has(t, x)
  <2> SUFFICES ASSUME NEW i \in DOMAIN u, u[i] = x PROVE Has(t, x)
    BY DEF Has
  <2>1. i + Len(s) \in DOMAIN t /\ t[i + Len(s)] = x
    BY <1>1
  <2> QED
    BY <2>1 DEF Has
<1>6. ASSUME Once(s, x), Once(u, x), ~(Has(s, x) /\ Has(u, x)),
             NEW i \in DOMAIN t, NEW j \in DOMAIN t, t[i] = x, t[j] = x
      PROVE  i = j
  <2>1. CASE i \in DOMAIN s /\ s[i] = x
    <3>1. j \in DOMAIN s /\ s[j] = x
      BY <1>2, <1>6, <2>1 DEF Has
    <3> QED
      BY <1>6, <2>1, <3>1 DEF Once
  <2>2. CASE i - Len(s) \in DOMAIN u /\ u[i - Len(s)] = x
    <3>1. j - Len(s) \in DOMAIN u /\ u[j - Len(s)] = x
      BY <1>2, <1>6, <2>2 DEF Has
    <3>2. i - Len(s) = j - Len(s)
      BY <1>6, <2>2, <3>1 DEF Once
    <3> QED
      BY <1>1, <3>2
  <2> QED
    BY <1>2, <1>6, <2>1, <2>2
<1> QED
  BY <1>3, <1>4, <1>5, <1>6 DEF Once, t

LEMMA EmptyMembers ==
  ASSUME NEW x, NEW y
  PROVE  ~Has(<<>>, x) /\ Once(<<>>, x) /\ Before(<<>>, x, y)
  BY DEF Has, Once, Before

\* What is not there comes after anything.
LEMMA AbsentBefore ==
  ASSUME NEW s, NEW x, NEW y, ~Has(s, y)
  PROVE  Before(s, x, y)
  BY DEF Has, Before

-----------------------------------------------------------------------------
(* The inductive invariant *)

\* Who has an object: one of the lists of the two processes, the handler while
\* it hands it over, or nobody; and the port follows.  What got lost is what the
\* lock handler had no memory for, and requests on a volume that was freed.
PlaceInv(o) ==
  /\ o \in table => home[o] = "fs" /\ o \in exists /\ o \notin list \cup forgotten \cup {item}
  /\ o \in list => home[o] = "lh" /\ o \in exists /\ o \notin forgotten \cup {item}
  /\ o \in forgotten => /\ o # item /\ VolumeOf[o] # current
                        /\ o \in IF home[o] = "lh" THEN CanFail ELSE Request
  /\ o = item => home[o] = "lh" /\ o \in exists
  /\ o \in exists => o \in table \cup list \cup forgotten \cup {item}
  /\ pc = "run" => home[o] = "fs"
  /\ o \in exists /\ VolumeOf[o] = current => answer[o] = "ok"

\* How far the two processes are.
PhaseInv ==
  /\ pc \in {"send", "collect"} <=> item # NULL
  /\ pc \in {"rest", "cleanup", "gone"} => table = {}
  /\ pc # "run" => current = NULL
  /\ users = IF pc = "gone" THEN 0 ELSE 1
  /\ lhpc \in {"sema", "none"} => pc = "gone" /\ list = {}

\* ACTION_COLLECT is at the port exactly while the handler waits for its answer.
CollectInv(o) ==
  /\ Has(lhport, Collect(o)) <=> pc = "collect" /\ o = item
  /\ Once(lhport, Collect(o))

\* A program has at most one packet about an object under way, which is about to
\* be sent or at one of the ports.  An object is not freed before it is answered.
PacketInv(o) ==
  /\ request[o] = None => /\ target[o] = NULL
                          /\ ~Has(fsport, Packet(o)) /\ ~Has(lhport, Packet(o))
  /\ target[o] # NULL => ~Has(fsport, Packet(o)) /\ ~Has(lhport, Packet(o))
  /\ ~(Has(fsport, Packet(o)) /\ Has(lhport, Packet(o)))
  /\ Once(fsport, Packet(o)) /\ Once(lhport, Packet(o))
  /\ request[o] # None => o \in exists
  /\ target[o] = "lh" => home[o] = "lh"
  /\ Has(lhport, Packet(o)) => pc # "run" /\ (home[o] = "lh" \/ o \in forgotten)
  /\ pc \in {"cleanup", "gone"} /\ Has(fsport, Packet(o)) => o \in forgotten \cup late

\* What the scheduling adds: no packet comes between the redirection and the end
\* of the loop, and ACTION_COLLECT is at the port before any packet about the
\* object.
ScheduleInv(o) ==
  /\ HandlerFirst /\ pc = "rest" => ~Has(fsport, Packet(o))
  /\ HandlerFirst /\ target[o] = "lh" => o # item \/ pc = "collect"
  /\ HandlerFirst /\ o \notin list \cup forgotten
       => Before(lhport, Collect(o), Packet(o))

ObjectInv(o) == PlaceInv(o) /\ CollectInv(o) /\ PacketInv(o) /\ ScheduleInv(o)

IInv == TypeOK /\ PhaseInv /\ \A o \in Object : ObjectInv(o)

LEMMA Distinct ==
  ASSUME NEW o, NEW q
  PROVE  /\ Packet(o) = Packet(q) <=> o = q
         /\ Collect(o) = Collect(q) <=> o = q
         /\ Packet(o) # Collect(q)
         /\ Packet(o)[1] = "packet" /\ Packet(o)[2] = o
         /\ Collect(o)[1] = "collect" /\ Collect(o)[2] = o
  BY DEF Packet, Collect

Packets  == {Packet(o) : o \in Object}
Messages == Packets \cup {Collect(o) : o \in Object}

-----------------------------------------------------------------------------
(* Types *)

LEMMA PutTypes ==
  ASSUME TypeOK, NEW port \in {"fs", "lh"}, NEW m \in Messages,
         port = "fs" => m \in Packets, Put(port, m)
  PROVE  fsport' \in Seq(Packets) /\ lhport' \in Seq(Messages) /\ wake' \in BOOLEAN
<1>1. fsport \in Seq(Packets) /\ lhport \in Seq(Messages) /\ wake \in BOOLEAN
  BY DEF TypeOK, Packets, Messages
<1>2. CASE port = "fs"
  BY <1>1, <1>2, AppendProperties DEF Put
<1>3. CASE port # "fs"
  BY <1>1, <1>3, AppendProperties DEF Put
<1> QED
  BY <1>2, <1>3

LEMMA AnswerTypes ==
  ASSUME TypeOK, NEW o \in Object, NEW where,
         NEW use \in {"ok", "nodisk", "refused"}, Answer(o, where, use)
  PROVE  /\ exists' \subseteq Object
         /\ answer' \in [Object -> {"ok", "nodisk", "freed", "refused"}]
         /\ request' \in [Object -> {None, "use", "free"}]
  BY DEF TypeOK, Answer

LEMMA HeadIsPacket ==
  ASSUME TypeOK
  PROVE  /\ fsport # <<>> => \E o \in Object : Head(fsport) = Packet(o)
         /\ lhport # <<>> => \E o \in Object : \/ Head(lhport) = Packet(o)
                                                \/ Head(lhport) = Collect(o)
<1>1. fsport \in Seq(Packets) /\ lhport \in Seq(Messages)
  BY DEF TypeOK, Packets, Messages
<1>2. fsport # <<>> => Head(fsport) \in Packets
  BY <1>1, HeadTailProperties
<1>3. lhport # <<>> => Head(lhport) \in Messages
  BY <1>1, HeadTailProperties
<1> QED
  BY <1>2, <1>3 DEF Packets, Messages

LEMMA TypesStep == TypeOK /\ PhaseInv /\ [Next]_vars => TypeOK'
<1> SUFFICES ASSUME TypeOK, PhaseInv, [Next]_vars PROVE TypeOK'
  OBVIOUS
<1>a. /\ fsport \in Seq(Packets) /\ lhport \in Seq(Messages)
      /\ Packets = {Packet(o) : o \in Object}
      /\ Messages = {Packet(o) : o \in Object} \cup {Collect(o) : o \in Object}
      /\ Packets \subseteq Messages
      /\ \A o \in Object : Packet(o) \in Packets /\ Collect(o) \in Messages
  BY DEF TypeOK, Packets, Messages
<1>1. ASSUME NEW o \in Object, Ask(o) PROVE TypeOK'
  BY <1>1 DEF Ask, TypeOK, objects, ports, handler, helper
<1>2. ASSUME NEW o \in Object, SendPacket(o) PROVE TypeOK'
  <2>1. target[o] \in {"fs", "lh"} /\ Put(target[o], Packet(o))
    BY <1>2 DEF SendPacket, TypeOK
  <2>2. fsport' \in Seq(Packets) /\ lhport' \in Seq(Messages) /\ wake' \in BOOLEAN
    BY <1>a, <2>1, PutTypes
  <2>3. target' \in [Object -> {"fs", "lh", NULL}] /\ late' \subseteq Object
    BY <1>2 DEF SendPacket, TypeOK
  <2> QED
    BY <1>2, <1>a, <2>2, <2>3 DEF SendPacket, TypeOK, objects, handler
<1>3. CASE HandlePacket
  <2>1. PICK o \in Object : Head(fsport) = Packet(o)
    BY <1>3, HeadIsPacket DEF HandlePacket
  <2>2. ServeAtHandler(o)
    BY <1>3, <2>1, Distinct DEF HandlePacket
  <2>3. /\ exists' \subseteq Object
        /\ answer' \in [Object -> {"ok", "nodisk", "freed", "refused"}]
        /\ request' \in [Object -> {None, "use", "free"}]
    <3>1. PICK use \in {"ok", "nodisk", "refused"} : Answer(o, Accepted, use)
      BY <2>2 DEF ServeAtHandler, UseAtHandler
    <3> QED
      BY <3>1, AnswerTypes
  <2>4. fsport' \in Seq(Packets)
    BY <1>3, <1>a, HeadTailProperties DEF HandlePacket
  <2>5. table' \subseteq Object /\ list' \subseteq Object /\ forgotten' \subseteq Object
    BY <2>2 DEF ServeAtHandler, Without, Lost, TypeOK
  <2> QED
    BY <1>3, <1>a, <2>3, <2>4, <2>5 DEF HandlePacket, TypeOK, handler, helper
<1>4. CASE FbxCleanupVolume \/ FbxDie
  BY <1>4 DEF FbxCleanupVolume, FbxDie, TypeOK, programs, ports, handler, helper
<1>5. CASE FbxCollect
  BY <1>5 DEF FbxCollect, TypeOK, programs, ports, helper
<1>6. CASE SendCollect
  <2>1. item \in Object
    BY <1>6 DEF SendCollect, PhaseInv, TypeOK
  <2>2. fsport' \in Seq(Packets) /\ lhport' \in Seq(Messages) /\ wake' \in BOOLEAN
    BY <1>6, <1>a, <2>1, PutTypes DEF SendCollect
  <2> QED
    BY <1>6, <1>a, <2>2 DEF SendCollect, TypeOK, objects, programs
<1>7. CASE Redirect
  <2>1. fsport \in Seq(Messages)
    BY <1>a, SeqMonotonic
  <2>2. lhport' \in Seq(Messages) /\ fsport' \in Seq(Packets) /\ wake' \in BOOLEAN
    BY <1>7, <1>a, <2>1, ConcatProperties, EmptySeq DEF Redirect, TypeOK
  <2> QED
    BY <1>7, <1>a, <2>2 DEF Redirect, TypeOK, objects, programs
<1>8. CASE EndLoop
  BY <1>8 DEF EndLoop, TypeOK, objects, programs, ports, helper
<1>9. CASE FbxCleanupFS
  BY <1>9 DEF FbxCleanupFS, PhaseInv, TypeOK, objects, programs, ports
<1>10. CASE Wake
  BY <1>10 DEF Wake, TypeOK, objects, programs, ports, handler
<1>11. CASE ServeCollect
  <2>1. PICK o \in Object : Head(lhport) = Collect(o)
    BY <1>11, HeadIsPacket, Distinct DEF ServeCollect
  <2>2. list' \subseteq Object /\ forgotten' \subseteq Object
    BY <1>11, <2>1, Distinct DEF ServeCollect, TypeOK
  <2>3. lhport' \in Seq(Messages)
    BY <1>11, <1>a, HeadTailProperties DEF ServeCollect
  <2> QED
    BY <1>11, <1>a, <2>2, <2>3 DEF ServeCollect, TypeOK, programs, helper
<1>12. CASE ServePacket
  <2>1. PICK o \in Object : Head(lhport) = Packet(o)
    BY <1>12, HeadIsPacket, Distinct DEF ServePacket
  <2>2. ServeAtLockHandler(o)
    BY <1>12, <2>1, Distinct DEF ServePacket
  <2>3. /\ exists' \subseteq Object
        /\ answer' \in [Object -> {"ok", "nodisk", "freed", "refused"}]
        /\ request' \in [Object -> {None, "use", "free"}]
    BY <2>2, AnswerTypes DEF ServeAtLockHandler
  <2>4. lhport' \in Seq(Messages)
    BY <1>12, <1>a, HeadTailProperties DEF ServePacket
  <2>5. /\ table' \subseteq Object /\ list' \subseteq Object
        /\ forgotten' \subseteq Object
    BY <2>2 DEF ServeAtLockHandler, Without, TypeOK
  <2> QED
    BY <1>12, <1>a, <2>3, <2>4, <2>5 DEF ServePacket, TypeOK, handler, helper
<1>13. CASE CheckEnd
  BY <1>13 DEF CheckEnd, TypeOK, objects, programs, ports, handler
<1>14. CASE End
  BY <1>14 DEF End, TypeOK, objects, programs, ports, handler
<1>15. CASE UNCHANGED vars
  BY <1>15 DEF vars, TypeOK, objects, programs, ports, handler, helper
<1> QED
  BY <1>1, <1>2, <1>3, <1>4, <1>5, <1>6, <1>7, <1>8, <1>9, <1>10, <1>11, <1>12,
     <1>13, <1>14, <1>15 DEF Next, Handler, LockHandler

-----------------------------------------------------------------------------
(* Every step keeps the invariant *)

LEMMA PhaseStep == IInv /\ [Next]_vars => PhaseInv'
<1> SUFFICES ASSUME IInv, [Next]_vars PROVE PhaseInv'
  OBVIOUS
<1>a. TypeOK /\ PhaseInv /\ ConstantAssumption
  BY ConstantAssumption DEF IInv
<1>1. ASSUME NEW o \in Object, Ask(o) PROVE PhaseInv'
  BY <1>a, <1>1 DEF Ask, PhaseInv, objects, handler, helper
<1>2. ASSUME NEW o \in Object, SendPacket(o) PROVE PhaseInv'
  BY <1>a, <1>2 DEF SendPacket, PhaseInv, objects, handler
<1>3. CASE HandlePacket
  BY <1>a, <1>3 DEF HandlePacket, ServeAtHandler, Without, PhaseInv, handler, helper
<1>4. CASE FbxCleanupVolume \/ FbxDie
  BY <1>a, <1>4 DEF FbxCleanupVolume, FbxDie, PhaseInv, handler, helper
<1>5. CASE FbxCollect
  BY <1>a, <1>5 DEF FbxCollect, PhaseInv, TypeOK, ConstantAssumption, helper
<1>6. CASE SendCollect
  BY <1>a, <1>6 DEF SendCollect, PhaseInv, objects
<1>7. CASE Redirect
  BY <1>a, <1>7 DEF Redirect, PhaseInv, objects
<1>8. CASE EndLoop
  BY <1>a, <1>8 DEF EndLoop, PhaseInv, objects, helper
<1>9. CASE FbxCleanupFS
  BY <1>a, <1>9 DEF FbxCleanupFS, PhaseInv, objects
<1>10. CASE Wake
  BY <1>a, <1>10 DEF Wake, PhaseInv, objects, handler
<1>11. CASE ServeCollect
  <2>1. PICK o \in Object : Head(lhport) = Collect(o)
    BY <1>a, <1>11, HeadIsPacket, Distinct DEF ServeCollect
  <2>2. Has(lhport, Collect(o))
    BY <1>a, <1>11, <2>1, TailMembers DEF ServeCollect, TypeOK
  <2>3. pc = "collect"
    BY <2>2 DEF IInv, ObjectInv, CollectInv
  <2> QED
    BY <1>a, <1>11, <2>3 DEF ServeCollect, PhaseInv, helper
<1>12. CASE ServePacket
  BY <1>a, <1>12 DEF ServePacket, ServeAtLockHandler, Without, PhaseInv, handler, helper
<1>13. CASE CheckEnd
  BY <1>a, <1>13 DEF CheckEnd, PhaseInv, objects, handler
<1>14. CASE End
  BY <1>a, <1>14 DEF End, PhaseInv, objects, handler
<1>15. CASE UNCHANGED vars
  BY <1>a, <1>15 DEF vars, PhaseInv, objects, handler, helper
<1> QED
  BY <1>1, <1>2, <1>3, <1>4, <1>5, <1>6, <1>7, <1>8, <1>9, <1>10, <1>11, <1>12,
     <1>13, <1>14, <1>15 DEF Next, Handler, LockHandler

\* A step that leaves objects, programs and ports alone, and the handler too
\* unless it ends.
LEMMA QuietStep ==
  ASSUME IInv, NEW o \in Object,
         UNCHANGED <<home, exists, table, list, forgotten, current, request, target,
                     answer, late, fsport, lhport, item>>,
         \/ pc' = pc
         \/ pc = "rest" /\ fsport = <<>> /\ pc' = "cleanup"
         \/ pc = "cleanup" /\ pc' = "gone"
  PROVE  ObjectInv(o)'
<1>1. PlaceInv(o) /\ CollectInv(o) /\ PacketInv(o) /\ ScheduleInv(o) /\ PhaseInv
  BY DEF IInv, ObjectInv
<1>2. pc' \in {"run", "collect"} => pc' = pc
  OBVIOUS
<1>3. PlaceInv(o)'
  BY <1>1, <1>2 DEF PlaceInv
<1>4. CollectInv(o)'
  BY <1>1 DEF CollectInv
<1>5. PacketInv(o)'
  <2>1. pc' \in {"cleanup", "gone"} => pc \in {"cleanup", "gone"} \/ ~Has(fsport, Packet(o))
    BY EmptyMembers
  <2> QED
    BY <1>1, <1>2, <2>1 DEF PacketInv
<1>6. ScheduleInv(o)'
  <2>1. o = item => (pc = "collect" => pc' = "collect")
    BY <1>1 DEF PhaseInv
  <2>2. pc' \in {"rest", "cleanup", "gone"} => pc \in {"rest", "cleanup", "gone"}
    OBVIOUS
  <2> QED
    BY <1>1, <2>1, <2>2 DEF ScheduleInv
<1> QED
  BY <1>3, <1>4, <1>5, <1>6 DEF ObjectInv

LEMMA AskStep ==
  ASSUME IInv, NEW q \in Object, Ask(q), NEW o \in Object
  PROVE  ObjectInv(o)'
<1>1. PlaceInv(o) /\ CollectInv(o) /\ PacketInv(o) /\ ScheduleInv(o) /\ PhaseInv /\ TypeOK
  BY DEF IInv, ObjectInv
<1>2. UNCHANGED <<home, exists, table, list, forgotten, current, answer, late,
                  fsport, lhport, pc, item>>
  BY DEF Ask, objects, ports, handler
<1>3. /\ q \in exists /\ request[q] = None
      /\ request'[q] # None /\ target'[q] = home[q]
      /\ o # q => request'[o] = request[o] /\ target'[o] = target[o]
  BY <1>1 DEF Ask, TypeOK, None
<1>4. PlaceInv(o)'
  BY <1>1, <1>2 DEF PlaceInv
<1>5. CollectInv(o)'
  BY <1>1, <1>2 DEF CollectInv
<1>6. PacketInv(o)'
  BY <1>1, <1>2, <1>3 DEF PacketInv
<1>7. ScheduleInv(o)'
  <2>1. CASE o # q
    BY <1>1, <1>2, <1>3, <2>1 DEF ScheduleInv
  <2>2. CASE o = q
    <3>1. HandlerFirst /\ o = item => pc = "collect"
      BY <1>1, ConstantAssumption DEF PhaseInv, Ask, ProgramsRun, ConstantAssumption
    <3> QED
      BY <1>1, <1>2, <1>3, <2>2, <3>1 DEF ScheduleInv
  <2> QED
    BY <2>1, <2>2
<1> QED
  BY <1>4, <1>5, <1>6, <1>7 DEF ObjectInv

LEMMA SendStep ==
  ASSUME IInv, NEW q \in Object, SendPacket(q), NEW o \in Object
  PROVE  ObjectInv(o)'
<1>1. PlaceInv(o) /\ CollectInv(o) /\ PacketInv(o) /\ ScheduleInv(o) /\ PhaseInv /\ TypeOK
  BY DEF IInv, ObjectInv
<1>2. UNCHANGED <<home, exists, table, list, forgotten, current, request, answer, pc, item>>
  BY DEF SendPacket, objects, handler
<1>3. /\ target[q] \in {"fs", "lh"} /\ target'[q] = NULL
      /\ o # q => target'[o] = target[o]
  BY <1>1 DEF SendPacket, TypeOK
<1>4. /\ target[q] = "fs" => fsport' = Append(fsport, Packet(q)) /\ lhport' = lhport
      /\ target[q] = "lh" => fsport' = fsport /\ lhport' = Append(lhport, Packet(q))
  BY <1>3 DEF SendPacket, Put
<1>5. /\ Has(fsport', Packet(o)) <=>
           Has(fsport, Packet(o)) \/ (o = q /\ target[q] = "fs")
      /\ Has(lhport', Packet(o)) <=>
           Has(lhport, Packet(o)) \/ (o = q /\ target[q] = "lh")
      /\ Has(lhport', Collect(o)) <=> Has(lhport, Collect(o))
      /\ Once(lhport, Collect(o)) => Once(lhport', Collect(o))
      /\ Once(fsport, Packet(o)) /\ ~(o = q /\ Has(fsport, Packet(o)))
           => Once(fsport', Packet(o))
      /\ Once(lhport, Packet(o)) /\ ~(o = q /\ Has(lhport, Packet(o)))
           => Once(lhport', Packet(o))
      /\ Before(lhport, Collect(o), Packet(o))
           /\ (o = q /\ target[q] = "lh" => Has(lhport, Collect(o)))
           => Before(lhport', Collect(o), Packet(o))
  <2>1. fsport \in Seq(Messages) /\ lhport \in Seq(Messages) /\ Packet(q) \in Messages
    <3>1. fsport \in Seq(Packets) /\ lhport \in Seq(Messages)
      BY <1>1 DEF TypeOK, Packets, Messages
    <3> QED
      BY <3>1, SeqMonotonic DEF Packets, Messages
  <2>2. CASE target[q] = "fs"
    <3>1. fsport' = Append(fsport, Packet(q)) /\ lhport' = lhport /\ target[q] # "lh"
      BY <1>4, <2>2
    <3> QED
      BY <2>1, <2>2, <3>1, AppendMembers, Distinct
  <2>3. CASE target[q] = "lh"
    <3>1. lhport' = Append(lhport, Packet(q)) /\ fsport' = fsport
      BY <1>4, <2>3
    <3>2. Before(lhport, Collect(o), Packet(o))
           /\ (o = q => Has(lhport, Collect(o)))
           => Before(lhport', Collect(o), Packet(o))
      BY <2>1, <3>1, AppendBefore, Distinct
    <3> QED
      BY <2>1, <2>3, <3>1, <3>2, AppendMembers, Distinct
  <2> QED
    BY <1>3, <2>2, <2>3
<1>6. o = q => /\ request[o] # None /\ o \in exists
               /\ ~Has(fsport, Packet(o)) /\ ~Has(lhport, Packet(o))
  BY <1>1, <1>3, ConstantAssumption DEF PacketInv, ConstantAssumption
<1>7. PlaceInv(o)'
  BY <1>1, <1>2 DEF PlaceInv
<1>8. CollectInv(o)'
  BY <1>1, <1>2, <1>5 DEF CollectInv
<1>9. PacketInv(o)'
  <2>1. late \subseteq late'
    BY DEF SendPacket
  <2>2. o = q /\ target[q] = "fs" /\ pc \in {"cleanup", "gone"} => o \in forgotten \cup late'
    <3> SUFFICES ASSUME o = q, target[q] = "fs", pc \in {"cleanup", "gone"}, o \notin late'
                 PROVE  o \in forgotten
      OBVIOUS
    <3>1. home[o] # "lh"
      BY DEF SendPacket
    <3>2. item = NULL /\ o # NULL /\ table = {}
      BY <1>1, ConstantAssumption DEF PhaseInv, ConstantAssumption
    <3> QED
      BY <1>1, <1>6, <3>1, <3>2 DEF PlaceInv
  <2>3. pc \in {"cleanup", "gone"} /\ Has(fsport', Packet(o)) => o \in forgotten \cup late'
    BY <1>1, <1>5, <2>1, <2>2 DEF PacketInv
  <2>4. o = q /\ target[q] = "lh" => pc # "run" /\ home[o] = "lh"
    BY <1>1 DEF PacketInv, PlaceInv
  <2>5. Has(lhport', Packet(o)) => pc # "run" /\ (home[o] = "lh" \/ o \in forgotten)
    BY <1>1, <1>5, <2>4 DEF PacketInv
  <2>6. NULL \notin {"fs", "lh"}
    BY ConstantAssumption DEF ConstantAssumption
  <2>7. CASE o # q
    BY <1>1, <1>2, <1>3, <1>5, <2>3, <2>5, <2>7 DEF PacketInv
  <2>8. CASE o = q
    BY <1>1, <1>2, <1>3, <1>5, <1>6, <2>3, <2>5, <2>6, <2>8 DEF PacketInv
  <2> QED
    BY <2>7, <2>8
<1>10. ScheduleInv(o)'
  <2>1. CASE o # q
    BY <1>1, <1>2, <1>3, <1>5, <2>1 DEF ScheduleInv
  <2>2. CASE o = q
    <3>1. target'[o] \notin {"fs", "lh"}
      BY <1>3, <2>2, ConstantAssumption DEF ConstantAssumption
    <3>2. HandlerFirst => pc # "rest"
      BY DEF SendPacket, ProgramsRun
    <3>3. HandlerFirst /\ o \notin list \cup forgotten /\ target[o] = "lh"
            => Has(lhport, Collect(o))
      BY <1>1, <1>6, <2>2 DEF ScheduleInv, PlaceInv, PacketInv, CollectInv
    <3> QED
      BY <1>1, <1>2, <1>5, <2>2, <3>1, <3>2, <3>3 DEF ScheduleInv
  <2> QED
    BY <2>1, <2>2
<1> QED
  BY <1>7, <1>8, <1>9, <1>10 DEF ObjectInv

\* What the answer to a packet changes: the packet was the only one about q, and
\* q is freed if it is in a list of the process.
LEMMA AnswerMoves ==
  ASSUME IInv, NEW q \in Object, NEW where, NEW use, Answer(q, where, use),
         request[q] # None, NEW o \in Object
  PROVE  /\ request'[q] = None
         /\ o # q => request'[o] = request[o] /\ answer'[o] = answer[o]
         /\ o # q => (o \in exists' <=> o \in exists)
         /\ o # q => (o \in Without(q, where) <=> o \in where)
         /\ q \in exists' <=> ~(request[q] = "free" /\ q \in where)
         /\ q \in Without(q, where) <=> q \in where /\ request[q] # "free"
<1>1. TypeOK /\ q \in exists
  BY DEF IInv, ObjectInv, PacketInv
<1>2. /\ request \in [Object -> {None, "use", "free"}]
      /\ answer \in [Object -> {"ok", "nodisk", "freed", "refused"}]
  BY <1>1 DEF TypeOK
<1> QED
  BY <1>1, <1>2 DEF Answer, Without

LEMMA HandlePacketStep ==
  ASSUME IInv, HandlePacket, NEW o \in Object
  PROVE  ObjectInv(o)'
<1>1. PlaceInv(o) /\ CollectInv(o) /\ PacketInv(o) /\ ScheduleInv(o) /\ PhaseInv /\ TypeOK
  BY DEF IInv, ObjectInv
<1>2. PICK q \in Object : Head(fsport) = Packet(q)
  BY <1>1, HeadIsPacket DEF HandlePacket
<1>3. /\ UNCHANGED <<home, list, current, target, late, lhport, pc, item>>
      /\ fsport # <<>> /\ fsport' = Tail(fsport) /\ fsport \in Seq(Packets)
      /\ ServeAtHandler(q) /\ pc \in {"run", "rest"}
  BY <1>1, <1>2, Distinct DEF HandlePacket, ServeAtHandler, TypeOK, Packets, handler
<1>4. /\ Has(fsport, Packet(q)) /\ ~Has(fsport', Packet(q))
      /\ o # q => (Has(fsport', Packet(o)) <=> Has(fsport, Packet(o)))
      /\ Once(fsport', Packet(o))
  <2>1. Once(fsport, Packet(q)) /\ Once(fsport, Packet(o))
    BY DEF IInv, ObjectInv, PacketInv
  <2> QED
    BY <1>2, <1>3, <2>1, TailMembers, Distinct
<1>5. /\ request[q] # None /\ target[q] = NULL /\ ~Has(lhport, Packet(q))
  BY <1>4 DEF IInv, ObjectInv, PacketInv
<1>6. PICK use \in {"ok", "nodisk", "refused"} :
        /\ Answer(q, Accepted, use)
        /\ table' = Without(q, table) \ Lost(q) /\ forgotten' = forgotten \cup Lost(q)
        /\ q \in table /\ VolumeOf[q] = current => use = "ok"
  BY <1>3 DEF ServeAtHandler, UseAtHandler
<1>7. /\ request'[q] = None
      /\ o # q => request'[o] = request[o] /\ answer'[o] = answer[o]
      /\ o # q => (o \in exists' <=> o \in exists)
      /\ q \in exists' <=> ~(request[q] = "free" /\ q \in Accepted)
  BY <1>5, <1>6, AnswerMoves
<1>8. /\ o \in Lost(q) => /\ o # q /\ o \in table \cap Request /\ VolumeOf[o] # current
      /\ o \in table' <=> o \in table /\ o \notin Lost(q) /\ ~(o = q /\ request[q] = "free")
      /\ o \in forgotten' <=> o \in forgotten \/ o \in Lost(q)
  BY <1>6, ConstantAssumption DEF Lost, LastOffline, Without, ConstantAssumption
<1>9. PlaceInv(o)'
  <2>1. CASE o # q /\ o \notin Lost(q)
    BY <1>1, <1>3, <1>7, <1>8, <2>1 DEF PlaceInv
  <2>2. CASE o \in Lost(q)
    BY <1>1, <1>3, <1>7, <1>8, <2>2 DEF PlaceInv
  <2>3. CASE o = q
    <3>1. o \in exists /\ o \notin Lost(q)
      BY <1>1, <1>5, <1>8, <2>3 DEF PacketInv
    <3>2. o \in Accepted => o \notin list \cup {item}
      BY <1>1 DEF PlaceInv, Accepted
    <3>3. o \in table => o \in Accepted
      BY DEF Accepted
    <3>4. ASSUME VolumeOf[o] = current, o \in exists'
          PROVE  answer'[o] = "ok"
      <4>1. pc = "run" /\ o \notin forgotten
        BY <1>1, <3>4, ConstantAssumption DEF PlaceInv, PhaseInv, ConstantAssumption
      <4>2. o \in table
        BY <1>1, <3>1, <4>1, ConstantAssumption DEF PlaceInv, PhaseInv, ConstantAssumption
      <4>3. request[q] # "free"
        BY <1>7, <2>3, <3>3, <3>4, <4>2
      <4> QED
        BY <1>1, <1>6, <2>3, <3>4, <4>2, <4>3 DEF Answer, TypeOK
    <3>5. o \in exists' => (o \in table' <=> o \in table)
      BY <1>7, <1>8, <2>3, <3>1, <3>3
    <3>6. o \in list \cup {item} => o \in exists'
      BY <1>7, <2>3, <3>2
    <3>7. o \in table' => o \in table /\ o \in exists'
      BY <1>7, <1>8, <2>3
    <3> QED
      BY <1>1, <1>3, <1>8, <2>3, <3>1, <3>4, <3>5, <3>6, <3>7 DEF PlaceInv
  <2> QED
    BY <2>1, <2>2, <2>3
<1>10. CollectInv(o)'
  BY <1>1, <1>3 DEF CollectInv
<1>11. PacketInv(o)'
  <2>1. CASE o # q
    BY <1>1, <1>3, <1>4, <1>7, <1>8, <2>1 DEF PacketInv
  <2>2. CASE o = q
    BY <1>1, <1>3, <1>4, <1>5, <1>7, <1>8, <2>2, ConstantAssumption
       DEF PacketInv, ConstantAssumption
  <2> QED
    BY <2>1, <2>2
<1>12. ScheduleInv(o)'
  BY <1>1, <1>3, <1>4, <1>8 DEF ScheduleInv
<1> QED
  BY <1>9, <1>10, <1>11, <1>12 DEF ObjectInv

LEMMA ServePacketStep ==
  ASSUME IInv, ServePacket, NEW o \in Object
  PROVE  ObjectInv(o)'
<1>1. PlaceInv(o) /\ CollectInv(o) /\ PacketInv(o) /\ ScheduleInv(o) /\ PhaseInv /\ TypeOK
  BY DEF IInv, ObjectInv
<1>2. PICK q \in Object : Head(lhport) = Packet(q)
  BY <1>1, HeadIsPacket, Distinct DEF ServePacket
<1>3. /\ UNCHANGED <<home, table, forgotten, current, target, late, fsport, pc, item>>
      /\ lhport # <<>> /\ lhport' = Tail(lhport) /\ lhport \in Seq(Messages)
      /\ Answer(q, list, "nodisk") /\ list' = Without(q, list)
  BY <1>1, <1>2, Distinct
     DEF ServePacket, ServeAtLockHandler, TypeOK, Packets, Messages, handler
<1>4. /\ Has(lhport, Packet(q)) /\ ~Has(lhport', Packet(q))
      /\ o # q => (Has(lhport', Packet(o)) <=> Has(lhport, Packet(o)))
      /\ Has(lhport', Collect(o)) <=> Has(lhport, Collect(o))
      /\ Once(lhport', Packet(o)) /\ Once(lhport', Collect(o))
      /\ Before(lhport, Collect(o), Packet(o)) => Before(lhport', Collect(o), Packet(o))
  <2>1. Once(lhport, Packet(q)) /\ Once(lhport, Packet(o)) /\ Once(lhport, Collect(o))
    BY DEF IInv, ObjectInv, PacketInv, CollectInv
  <2>2. Before(lhport, Collect(o), Packet(o)) => Before(lhport', Collect(o), Packet(o))
    BY <1>2, <1>3, TailBefore, Distinct
  <2> QED
    BY <1>2, <1>3, <2>1, <2>2, TailMembers, Distinct
<1>5. /\ request[q] # None /\ target[q] = NULL /\ ~Has(fsport, Packet(q))
  BY <1>4 DEF IInv, ObjectInv, PacketInv
<1>6. /\ request'[q] = None
      /\ o # q => request'[o] = request[o] /\ answer'[o] = answer[o]
      /\ o # q => (o \in exists' <=> o \in exists)
      /\ o # q => (o \in list' <=> o \in list)
      /\ q \in exists' <=> ~(request[q] = "free" /\ q \in list)
      /\ q \in list' <=> q \in list /\ request[q] # "free"
  BY <1>3, <1>5, AnswerMoves
<1>7. PlaceInv(o)'
  <2>1. CASE o # q
    BY <1>1, <1>3, <1>6, <2>1 DEF PlaceInv
  <2>2. CASE o = q
    <3>1. o \in exists /\ (home[o] = "lh" \/ o \in forgotten)
      BY <1>1, <1>4, <1>5, <2>2 DEF PacketInv
    <3>2. pc # "run" /\ VolumeOf[o] # current
      BY <1>1, <1>4, <2>2, ConstantAssumption DEF PacketInv, PhaseInv, ConstantAssumption
    <3> QED
      BY <1>1, <1>3, <1>6, <2>2, <3>1, <3>2 DEF PlaceInv
  <2> QED
    BY <2>1, <2>2
<1>8. CollectInv(o)'
  BY <1>1, <1>3, <1>4 DEF CollectInv
<1>9. PacketInv(o)'
  <2>1. CASE o # q
    BY <1>1, <1>3, <1>4, <1>6, <2>1 DEF PacketInv
  <2>2. CASE o = q
    BY <1>1, <1>3, <1>4, <1>5, <1>6, <2>2, ConstantAssumption
       DEF PacketInv, ConstantAssumption
  <2> QED
    BY <2>1, <2>2
<1>10. ScheduleInv(o)'
  <2>1. CASE o # q
    BY <1>1, <1>3, <1>4, <1>6, <2>1 DEF ScheduleInv
  <2>2. CASE o = q
    BY <1>1, <1>3, <1>4, <1>5, <2>2, AbsentBefore, ConstantAssumption
       DEF ScheduleInv, ConstantAssumption
  <2> QED
    BY <2>1, <2>2
<1> QED
  BY <1>7, <1>8, <1>9, <1>10 DEF ObjectInv

LEMMA ServeCollectStep ==
  ASSUME IInv, ServeCollect, NEW o \in Object
  PROVE  ObjectInv(o)'
<1>1. PlaceInv(o) /\ CollectInv(o) /\ PacketInv(o) /\ ScheduleInv(o) /\ PhaseInv /\ TypeOK
  BY DEF IInv, ObjectInv
<1>2. PICK q \in Object : Head(lhport) = Collect(q)
  BY <1>1, HeadIsPacket, Distinct DEF ServeCollect
<1>3. /\ UNCHANGED <<home, exists, table, current, request, target, answer, late, fsport>>
      /\ lhport # <<>> /\ lhport' = Tail(lhport) /\ lhport \in Seq(Messages)
      /\ pc' = "die" /\ item' = NULL
      /\ \/ list' = list \cup {q} /\ forgotten' = forgotten
         \/ q \in CanFail /\ forgotten' = forgotten \cup {q} /\ list' = list
  BY <1>1, <1>2, Distinct DEF ServeCollect, TypeOK, Packets, Messages, programs
<1>4. /\ Has(lhport, Collect(q))
      /\ Has(lhport', Packet(o)) <=> Has(lhport, Packet(o))
      /\ ~Has(lhport', Collect(q))
      /\ o # q => (Has(lhport', Collect(o)) <=> Has(lhport, Collect(o)))
      /\ Once(lhport', Packet(o)) /\ Once(lhport', Collect(o))
      /\ o # q /\ Before(lhport, Collect(o), Packet(o))
           => Before(lhport', Collect(o), Packet(o))
  <2>1. Once(lhport, Packet(o)) /\ Once(lhport, Collect(o)) /\ Once(lhport, Collect(q))
    BY DEF IInv, ObjectInv, PacketInv, CollectInv
  <2>2. o # q /\ Before(lhport, Collect(o), Packet(o))
          => Before(lhport', Collect(o), Packet(o))
    BY <1>2, <1>3, TailBefore, Distinct
  <2> QED
    BY <1>2, <1>3, <2>1, <2>2, TailMembers, Distinct
<1>5. pc = "collect" /\ item = q
  BY <1>4 DEF IInv, ObjectInv, CollectInv
<1>6. PlaceInv(o)'
  <2>1. VolumeOf[q] # current /\ home[item] = "lh" /\ q # NULL
    BY <1>5, ConstantAssumption DEF IInv, ObjectInv, PlaceInv, PhaseInv, ConstantAssumption
  <2>2. CASE o # q
    BY <1>1, <1>3, <1>5, <2>1, <2>2, ConstantAssumption DEF PlaceInv, ConstantAssumption
  <2>3. CASE o = q
    BY <1>1, <1>3, <1>5, <2>1, <2>3, ConstantAssumption DEF PlaceInv, ConstantAssumption
  <2> QED
    BY <2>2, <2>3
<1>7. CollectInv(o)'
  BY <1>1, <1>3, <1>4, <1>5 DEF CollectInv
<1>8. PacketInv(o)'
  BY <1>1, <1>3, <1>4 DEF PacketInv
<1>9. ScheduleInv(o)'
  BY <1>1, <1>3, <1>4, <1>5, ConstantAssumption DEF ScheduleInv, ConstantAssumption
<1> QED
  BY <1>6, <1>7, <1>8, <1>9 DEF ObjectInv

\* The disk goes, alone or with the handler.
LEMMA DieStep ==
  ASSUME IInv, FbxCleanupVolume \/ FbxDie, NEW o \in Object
  PROVE  ObjectInv(o)'
<1>1. PlaceInv(o) /\ CollectInv(o) /\ PacketInv(o) /\ ScheduleInv(o) /\ PhaseInv /\ TypeOK
  BY DEF IInv, ObjectInv
<1>2. /\ UNCHANGED <<home, exists, table, list, forgotten, request, target, answer, late,
                     fsport, lhport, item>>
      /\ pc = "run" /\ pc' \in {"run", "die"} /\ current' = NULL
  BY DEF FbxCleanupVolume, FbxDie, programs, ports, handler
<1>3. PlaceInv(o)'
  <2>1. VolumeOf[o] # NULL
    BY ConstantAssumption DEF ConstantAssumption
  <2> QED
    BY <1>1, <1>2, <2>1 DEF PlaceInv
<1>4. CollectInv(o)'
  BY <1>1, <1>2 DEF CollectInv
<1>5. PacketInv(o)'
  BY <1>1, <1>2 DEF PacketInv
<1>6. ScheduleInv(o)'
  BY <1>1, <1>2 DEF ScheduleInv
<1> QED
  BY <1>3, <1>4, <1>5, <1>6 DEF ObjectInv

LEMMA CollectStep ==
  ASSUME IInv, FbxCollect, NEW o \in Object
  PROVE  ObjectInv(o)'
<1>1. PlaceInv(o) /\ CollectInv(o) /\ PacketInv(o) /\ ScheduleInv(o) /\ PhaseInv /\ TypeOK
  BY DEF IInv, ObjectInv
<1>2. PICK q \in table : /\ table' = table \ {q} /\ item' = q
                         /\ home' = [home EXCEPT ![q] = "lh"]
  BY DEF FbxCollect
<1>3. /\ UNCHANGED <<exists, list, forgotten, current, request, target, answer, late,
                     fsport, lhport>>
      /\ pc = "die" /\ pc' = "send" /\ item = NULL /\ q \in Object
      /\ home'[o] = IF o = q THEN "lh" ELSE home[o]
  BY <1>1, <1>2 DEF FbxCollect, programs, ports, PhaseInv, TypeOK
<1>4. PlaceInv(o)'
  <2>1. CASE o # q
    BY <1>1, <1>2, <1>3, <2>1, ConstantAssumption DEF PlaceInv, ConstantAssumption
  <2>2. CASE o = q
    BY <1>1, <1>2, <1>3, <2>2 DEF PlaceInv
  <2> QED
    BY <2>1, <2>2
<1>5. CollectInv(o)'
  BY <1>1, <1>2, <1>3 DEF CollectInv
<1>6. PacketInv(o)'
  BY <1>1, <1>3 DEF PacketInv
<1>7. ScheduleInv(o)'
  <2>2. target[o] = "lh" => o # q
    BY <1>1, <1>2 DEF PacketInv, PlaceInv
  <2>3. ~Has(lhport, Collect(o)) /\ pc' \notin {"rest", "cleanup", "gone"}
    BY <1>1, <1>3 DEF CollectInv
  <2> QED
    BY <1>1, <1>2, <1>3, <2>2, <2>3 DEF ScheduleInv
<1> QED
  BY <1>4, <1>5, <1>6, <1>7 DEF ObjectInv

LEMMA SendCollectStep ==
  ASSUME IInv, SendCollect, NEW o \in Object
  PROVE  ObjectInv(o)'
<1>1. PlaceInv(o) /\ CollectInv(o) /\ PacketInv(o) /\ ScheduleInv(o) /\ PhaseInv /\ TypeOK
  BY DEF IInv, ObjectInv
<1>2. PICK q \in Object : q = item
  BY <1>1 DEF SendCollect, PhaseInv, TypeOK
<1>3. /\ UNCHANGED <<home, exists, table, list, forgotten, current, request, target,
                     answer, late, fsport, item>>
      /\ pc = "send" /\ pc' = "collect"
      /\ lhport' = Append(lhport, Collect(q)) /\ lhport \in Seq(Messages)
      /\ Collect(q) \in Messages
  BY <1>1, <1>2 DEF SendCollect, Put, objects, programs, TypeOK, Packets, Messages
<1>4. /\ Has(lhport', Packet(o)) <=> Has(lhport, Packet(o))
      /\ Has(lhport', Collect(o)) <=> Has(lhport, Collect(o)) \/ o = q
      /\ Once(lhport, Packet(o)) => Once(lhport', Packet(o))
      /\ Once(lhport, Collect(o)) /\ ~Has(lhport, Collect(o)) => Once(lhport', Collect(o))
      /\ Before(lhport, Collect(o), Packet(o)) => Before(lhport', Collect(o), Packet(o))
  <2>1. Before(lhport, Collect(o), Packet(o)) => Before(lhport', Collect(o), Packet(o))
    BY <1>3, AppendBefore, Distinct
  <2> QED
    BY <1>3, <2>1, AppendMembers, Distinct
<1>5. PlaceInv(o)'
  BY <1>1, <1>3 DEF PlaceInv
<1>6. CollectInv(o)'
  BY <1>1, <1>2, <1>3, <1>4 DEF CollectInv
<1>7. PacketInv(o)'
  BY <1>1, <1>3, <1>4 DEF PacketInv
<1>8. ScheduleInv(o)'
  BY <1>1, <1>3, <1>4 DEF ScheduleInv
<1> QED
  BY <1>5, <1>6, <1>7, <1>8 DEF ObjectInv

\* Whatever is redirected is about an object that the lock handler has, or that
\* nobody has.
LEMMA RedirectStep ==
  ASSUME IInv, Redirect, NEW o \in Object
  PROVE  ObjectInv(o)'
<1>1. PlaceInv(o) /\ CollectInv(o) /\ PacketInv(o) /\ ScheduleInv(o) /\ PhaseInv /\ TypeOK
  BY DEF IInv, ObjectInv
<1>2. /\ UNCHANGED <<home, exists, table, list, forgotten, current, request, target,
                     answer, late, item>>
      /\ pc = "die" /\ pc' = "rest" /\ table = {}
      /\ lhport' = lhport \o fsport /\ fsport' = <<>>
  BY DEF Redirect, objects, programs
<1>3. /\ Has(lhport', Packet(o)) <=> Has(lhport, Packet(o)) \/ Has(fsport, Packet(o))
      /\ Has(lhport', Collect(o)) <=> Has(lhport, Collect(o))
      /\ ~(Has(lhport, Packet(o)) /\ Has(fsport, Packet(o)))
           /\ Once(lhport, Packet(o)) /\ Once(fsport, Packet(o)) => Once(lhport', Packet(o))
      /\ Once(lhport, Collect(o)) => Once(lhport', Collect(o))
  <2>1. fsport \in Seq(Packets) /\ lhport \in Seq(Messages) /\ fsport \in Seq(Messages)
    BY <1>1, SeqMonotonic DEF TypeOK, Packets, Messages
  <2>2. ~Has(fsport, Collect(o)) /\ Once(fsport, Collect(o))
    <3>1. \A i \in DOMAIN fsport : fsport[i] # Collect(o)
      BY <2>1, ElementOfSeq, LenProperties, Distinct DEF Packets
    <3> QED
      BY <3>1 DEF Has, Once
  <2> QED
    BY <1>2, <2>1, <2>2, ConcatMembers
<1>4. ~Has(fsport', Packet(o)) /\ Once(fsport', Packet(o))
  BY <1>2, EmptyMembers
<1>5. Has(fsport, Packet(o)) \/ Has(lhport, Packet(o)) => o \in list \cup forgotten
  BY <1>1, <1>2, ConstantAssumption DEF PacketInv, PlaceInv, PhaseInv, ConstantAssumption
<1>6. PlaceInv(o)'
  BY <1>1, <1>2 DEF PlaceInv
<1>7. CollectInv(o)'
  BY <1>1, <1>2, <1>3 DEF CollectInv
<1>8. PacketInv(o)'
  BY <1>1, <1>2, <1>3, <1>4, <1>5 DEF PacketInv, PlaceInv
<1>9. ScheduleInv(o)'
  <2>1. o \notin list \cup forgotten => Before(lhport', Collect(o), Packet(o))
    BY <1>3, <1>5, AbsentBefore
  <2>2. o # item
    BY <1>1, <1>2, ConstantAssumption DEF PhaseInv, ConstantAssumption
  <2> QED
    BY <1>1, <1>2, <1>4, <2>1, <2>2 DEF ScheduleInv
<1> QED
  BY <1>6, <1>7, <1>8, <1>9 DEF ObjectInv

LEMMA IInvStep == IInv /\ [Next]_vars => IInv'
<1> SUFFICES ASSUME IInv, [Next]_vars, NEW o \in Object PROVE ObjectInv(o)'
  <2>1. IInv /\ [Next]_vars => TypeOK' /\ PhaseInv'
    BY TypesStep, PhaseStep DEF IInv
  <2> QED
    BY <2>1 DEF IInv
<1>1. ASSUME NEW q \in Object, Ask(q) PROVE ObjectInv(o)'
  BY <1>1, AskStep
<1>2. ASSUME NEW q \in Object, SendPacket(q) PROVE ObjectInv(o)'
  BY <1>2, SendStep
<1>3. CASE HandlePacket
  BY <1>3, HandlePacketStep
<1>4. CASE FbxCleanupVolume \/ FbxDie
  BY <1>4, DieStep
<1>5. CASE FbxCollect
  BY <1>5, CollectStep
<1>6. CASE SendCollect
  BY <1>6, SendCollectStep
<1>7. CASE Redirect
  BY <1>7, RedirectStep
<1>8. CASE EndLoop \/ FbxCleanupFS
  BY <1>8, QuietStep DEF EndLoop, FbxCleanupFS, objects, programs, ports
<1>9. CASE ServeCollect
  BY <1>9, ServeCollectStep
<1>10. CASE ServePacket
  BY <1>10, ServePacketStep
<1>11. CASE Wake \/ CheckEnd \/ End \/ UNCHANGED vars
  BY <1>11, QuietStep DEF Wake, CheckEnd, End, vars, objects, programs, ports, handler
<1> QED
  BY <1>1, <1>2, <1>3, <1>4, <1>5, <1>6, <1>7, <1>8, <1>9, <1>10, <1>11
     DEF Next, Handler, LockHandler

LEMMA IInvInit == Init => IInv
<1> SUFFICES ASSUME Init PROVE IInv
  OBVIOUS
<1>1. TypeOK
  <2>1. fsport \in Seq(Packets) /\ lhport \in Seq(Messages)
    BY EmptySeq DEF Init
  <2>2. /\ home \in [Object -> {"fs", "lh"}]
        /\ answer \in [Object -> {"ok", "nodisk", "freed", "refused"}]
        /\ request \in [Object -> {None, "use", "free"}]
        /\ target \in [Object -> {"fs", "lh", NULL}]
    BY DEF Init
  <2>3. /\ exists \subseteq Object /\ table \subseteq Object /\ list \subseteq Object
        /\ forgotten \subseteq Object /\ late \subseteq Object
        /\ current \in Volume \cup {NULL} /\ item \in Object \cup {NULL} /\ wake \in BOOLEAN
        /\ pc \in {"run", "die", "send", "collect", "rest", "cleanup", "gone"}
        /\ lhpc \in {"wait", "packets", "sema", "none"}
    BY Zenon DEF Init
  <2>4. users \in 0..1
    BY DEF Init
  <2> QED
    BY <2>1, <2>2, <2>3, <2>4, Zenon DEF TypeOK, Packets, Messages
<1>2. PhaseInv
  BY DEF Init, PhaseInv
<1>3. ASSUME NEW o \in Object PROVE ObjectInv(o)
  <2>1. \A x : ~Has(fsport, x) /\ ~Has(lhport, x) /\ Once(fsport, x) /\ Once(lhport, x)
    BY EmptyMembers DEF Init
  <2>2. target[o] = NULL /\ request[o] = None /\ home[o] = "fs" /\ answer[o] = "ok"
    BY DEF Init
  <2>3. PlaceInv(o)
    BY <2>2, ConstantAssumption DEF Init, PlaceInv, ConstantAssumption
  <2>4. CollectInv(o)
    BY <2>1 DEF Init, CollectInv
  <2>5. PacketInv(o)
    BY <2>1, <2>2, ConstantAssumption DEF PacketInv, ConstantAssumption
  <2>6. ScheduleInv(o)
    BY <2>1, <2>2, AbsentBefore, ConstantAssumption DEF ScheduleInv, ConstantAssumption
  <2> QED
    BY <2>3, <2>4, <2>5, <2>6 DEF ObjectInv
<1> QED
  BY <1>1, <1>2, <1>3 DEF IInv

\* The inductive invariant holds in every reachable state.
THEOREM Invariance == Spec => []IInv
  BY IInvInit, IInvStep, PTL DEF Spec

\* All variables keep their types.
THEOREM TypeCorrect == Spec => []TypeOK
<1>1. IInv => TypeOK
  BY DEF IInv
<1> QED
  BY <1>1, Invariance, PTL

\* FbxDie, FbxCollectLock, FbxCollectNotifyNode and the lock handler: whatever
\* runs when, the port that an object names is that of the process that has it.
THEOREM OwnerAnswersHolds == Spec => []OwnerAnswers
<1>1. IInv => OwnerAnswers
  <2> SUFFICES ASSUME IInv, NEW o \in exists \ (forgotten \cup {item})
               PROVE  o \in (IF home[o] = "fs" THEN table ELSE list)
    BY DEF OwnerAnswers
  <2>1. o \in Object
    BY DEF IInv, TypeOK
  <2> QED
    BY <2>1 DEF IInv, ObjectInv, PlaceInv
<1> QED
  BY <1>1, Invariance, PTL

\* The redirection in FbxDie and the end of the lock handler: whatever runs when,
\* a packet that stays at a port that nobody reads is about an object that got
\* lost, or was about to be sent when the object was handed over, and came late.
THEOREM NothingStrandedHolds == Spec => []NothingStranded
<1>1. IInv => NothingStranded
  <2> SUFFICES ASSUME IInv PROVE NothingStranded
    OBVIOUS
  <2>a. /\ fsport \in Seq(Packets) /\ lhport \in Seq(Messages)
    BY DEF IInv, TypeOK, Packets, Messages
  <2>1. ASSUME pc = "gone", NEW i \in DOMAIN fsport PROVE fsport[i][2] \in forgotten \cup late
    <3>1. PICK o \in Object : fsport[i] = Packet(o)
      BY <2>a, <2>1, ElementOfSeq, LenProperties DEF Packets
    <3>2. Has(fsport, Packet(o))
      BY <2>1, <3>1 DEF Has
    <3> QED
      BY <2>1, <3>1, <3>2, Distinct DEF IInv, ObjectInv, PacketInv
  <2>2. ASSUME lhpc = "none", NEW i \in DOMAIN lhport PROVE lhport[i][2] \in forgotten
    <3>1. PICK o \in Object : lhport[i] = Packet(o) \/ lhport[i] = Collect(o)
      BY <2>a, <2>2, ElementOfSeq, LenProperties DEF Packets, Messages
    <3>2. pc = "gone" /\ list = {} /\ table = {} /\ item = NULL
      BY <2>2 DEF IInv, PhaseInv
    <3>3. ~Has(lhport, Collect(o))
      BY <3>2 DEF IInv, ObjectInv, CollectInv
    <3>4. Has(lhport, Packet(o)) /\ lhport[i] = Packet(o)
      BY <2>2, <3>1, <3>3 DEF Has
    <3>5. o \in exists
      BY <3>4 DEF IInv, ObjectInv, PacketInv
    <3>6. o \in forgotten
      BY <3>2, <3>5, ConstantAssumption DEF IInv, ObjectInv, PlaceInv, ConstantAssumption
    <3> QED
      BY <3>4, <3>6, Distinct
  <2> QED
    BY <2>1, <2>2 DEF NothingStranded
<1> QED
  BY <1>1, Invariance, PTL

-----------------------------------------------------------------------------
(* Handler and lock handler implement FbxObjects *)

request_of == [o \in Reliable |-> request[o]]
answer_of  == [o \in Reliable |-> answer[o]]
promised   == <<exists \cap Reliable, request_of, answer_of>>

LEMMA RestrictedUpdate ==
  ASSUME NEW D, NEW S \in SUBSET D, NEW f, DOMAIN f = D, NEW q \in D, NEW x
  PROVE  [r \in S |-> [f EXCEPT ![q] = x][r]]
           = [[r \in S |-> f[r]] EXCEPT ![q] = x]
  OBVIOUS

\* What a request becomes for the promise, when that of one object changes.
LEMMA RequestMoves ==
  ASSUME TypeOK, NEW q \in Object, NEW x, request' = [request EXCEPT ![q] = x]
  PROVE  /\ request_of' = [request_of EXCEPT ![q] = x]
         /\ q \notin Reliable => request_of' = request_of
<1>1. Reliable \subseteq Object /\ DOMAIN request = Object
  BY DEF Reliable, Object, TypeOK
<1>2. request_of' = [request_of EXCEPT ![q] = x]
  BY <1>1, RestrictedUpdate DEF request_of
<1> QED
  BY <1>1, <1>2 DEF request_of

LEMMA AnswerMovesToo ==
  ASSUME TypeOK, NEW q \in Object, NEW x, answer' = [answer EXCEPT ![q] = x]
  PROVE  /\ answer_of' = [answer_of EXCEPT ![q] = x]
         /\ q \notin Reliable => answer_of' = answer_of
<1>1. Reliable \subseteq Object /\ DOMAIN answer = Object
  BY DEF Reliable, Object, TypeOK
<1>2. answer_of' = [answer_of EXCEPT ![q] = x]
  BY <1>1, RestrictedUpdate DEF answer_of
<1> QED
  BY <1>1, <1>2 DEF answer_of

\* An answer keeps the promise if freeing succeeds, and a use says nothing new.
LEMMA AnswerKeepsPromise ==
  ASSUME IInv, NEW q \in Object, NEW where, NEW use, Answer(q, where, use),
         request[q] # None,
         q \in Reliable /\ request[q] = "free" => q \in where,
         q \in Reliable /\ request[q] # "free" => use \in {"nodisk", answer[q]}
  PROVE  [Service!Next]_promised
<1>1. TypeOK /\ q \in exists
  BY DEF IInv, ObjectInv, PacketInv
<1>2. request' = [request EXCEPT ![q] = None]
  BY DEF Answer
<1>3. CASE q \notin Reliable
  <2>1. request_of' = request_of
    BY <1>1, <1>2, <1>3, RequestMoves
  <2>2. answer_of' = answer_of
    BY <1>1, <1>3, AnswerMovesToo DEF Answer
  <2>3. (exists \cap Reliable)' = exists \cap Reliable
    BY <1>3 DEF Answer, Reliable
  <2> QED
    BY <2>1, <2>2, <2>3 DEF promised
<1>4. CASE q \in Reliable /\ request[q] = "free"
  <2>1. /\ exists' = exists \ {q} /\ answer' = [answer EXCEPT ![q] = "freed"]
    BY <1>4 DEF Answer
  <2>2. request_of' = [request_of EXCEPT ![q] = None]
    BY <1>1, <1>2, RequestMoves
  <2>3. answer_of' = [answer_of EXCEPT ![q] = "freed"]
    BY <1>1, <2>1, AnswerMovesToo
  <2>4. (exists \cap Reliable)' = (exists \cap Reliable) \ {q} /\ q \in exists \cap Reliable
    BY <1>1, <1>4, <2>1 DEF Reliable
  <2>5. request_of[q] = "free"
    BY <1>4 DEF request_of
  <2> QED
    BY <1>4, <2>2, <2>3, <2>4, <2>5
       DEF Service!Next, Service!Free, request_of, answer_of, None, Service!None
<1>5. CASE q \in Reliable /\ request[q] # "free"
  <2>1. exists' = exists /\ answer' = [answer EXCEPT ![q] = use]
    BY <1>5 DEF Answer
  <2>2. request_of' = [request_of EXCEPT ![q] = None]
    BY <1>1, <1>2, RequestMoves
  <2>3. answer_of' = [answer_of EXCEPT ![q] = use]
    BY <1>1, <2>1, AnswerMovesToo
  <2>4. request_of[q] = "use" /\ answer_of[q] = answer[q]
    <3>1. request[q] \in {None, "use", "free"} /\ Reliable \subseteq Object
      BY <1>1 DEF TypeOK, Reliable, Object
    <3> QED
      BY <1>5, <3>1 DEF request_of, answer_of
  <2>5. (exists \cap Reliable)' = exists \cap Reliable
    BY <2>1 DEF Reliable
  <2> QED
    BY <1>5, <2>2, <2>3, <2>4, <2>5
       DEF Service!Next, Service!Use, request_of, answer_of, None, Service!None
<1> QED
  BY <1>3, <1>4, <1>5

LEMMA StepKeepsPromise ==
  ASSUME HandlerFirst, IInv, [Next]_vars
  PROVE  [Service!Next]_promised
<1>1. TypeOK /\ PhaseInv /\ fsport \in Seq(Packets) /\ lhport \in Seq(Messages)
  BY DEF IInv, TypeOK, Packets, Messages
<1>2. ASSUME NEW q \in Object, Ask(q) PROVE [Service!Next]_promised
  <2>1. PICK op \in {"use", "free"} : request' = [request EXCEPT ![q] = op]
    BY <1>2 DEF Ask
  <2>2. request_of' = [request_of EXCEPT ![q] = op]
    BY <1>1, <2>1, RequestMoves
  <2>3. (exists \cap Reliable)' = exists \cap Reliable /\ answer_of' = answer_of
    BY <1>2 DEF Ask, Reliable, answer_of, objects
  <2>4. CASE q \notin Reliable
    BY <1>1, <2>1, <2>3, <2>4, RequestMoves DEF promised
  <2>5. CASE q \in Reliable
    <3>1. q \in exists \cap Reliable /\ request_of[q] = None
      BY <1>2, <2>5 DEF Ask, request_of
    <3> QED
      BY <2>2, <2>3, <2>5, <3>1
         DEF Service!Next, Service!Ask, request_of, answer_of, None, Service!None
  <2> QED
    BY <2>4, <2>5
<1>3. CASE HandlePacket
  <2>1. PICK q \in Object : Head(fsport) = Packet(q)
    BY <1>1, <1>3, HeadIsPacket DEF HandlePacket
  <2>2. /\ fsport # <<>> /\ pc \in {"run", "rest"} /\ ServeAtHandler(q)
    BY <1>3, <2>1, Distinct DEF HandlePacket
  <2>3. Has(fsport, Packet(q))
    BY <1>1, <2>1, <2>2, TailMembers
  <2>4. request[q] # None /\ q \in exists
    BY <2>3 DEF IInv, ObjectInv, PacketInv
  <2>5. pc = "run" /\ home[q] = "fs" /\ item = NULL
    BY <1>1, <2>2, <2>3 DEF IInv, ObjectInv, ScheduleInv, PlaceInv, PhaseInv
  <2>6. q \in Reliable => q \in table
    BY <2>4, <2>5, ConstantAssumption
       DEF IInv, ObjectInv, PlaceInv, Reliable, ConstantAssumption
  <2>7. q \in Reliable => UseAtHandler(q) \in {"nodisk", answer[q]}
    BY <2>4, <2>6 DEF IInv, ObjectInv, PlaceInv, UseAtHandler
  <2> QED
    BY <2>2, <2>4, <2>6, <2>7, AnswerKeepsPromise DEF ServeAtHandler, Accepted
<1>4. CASE ServePacket
  <2>1. PICK q \in Object : Head(lhport) = Packet(q)
    BY <1>1, <1>4, HeadIsPacket, Distinct DEF ServePacket
  <2>2. lhport # <<>> /\ ServeAtLockHandler(q)
    BY <1>4, <2>1, Distinct DEF ServePacket
  <2>3. Has(lhport, Packet(q))
    BY <1>1, <2>1, <2>2, TailMembers
  <2>4. request[q] # None
    BY <2>3 DEF IInv, ObjectInv, PacketInv
  <2>5. q \in list \cup forgotten
    <3>1. ~Before(lhport, Collect(q), Packet(q))
      BY <1>1, <2>1, <2>2, TailBefore
    <3> QED
      BY <3>1 DEF IInv, ObjectInv, ScheduleInv
  <2>6. q \in Reliable => q \in list
    BY <2>5, ConstantAssumption DEF IInv, ObjectInv, PlaceInv, Reliable, ConstantAssumption
  <2> QED
    BY <2>2, <2>4, <2>6, AnswerKeepsPromise DEF ServeAtLockHandler
<1>5. ASSUME UNCHANGED <<exists, request, answer>> PROVE [Service!Next]_promised
  BY <1>5 DEF promised, request_of, answer_of, Reliable
<1>6. (\E q \in Object : SendPacket(q)) \/ UNCHANGED vars => UNCHANGED <<exists, request, answer>>
  BY DEF SendPacket, vars, objects, programs
<1>7. FbxCleanupVolume \/ FbxDie \/ FbxCollect \/ SendCollect \/ Redirect \/ EndLoop \/ FbxCleanupFS
        => UNCHANGED <<exists, request, answer>>
  BY DEF FbxCleanupVolume, FbxDie, FbxCollect, SendCollect, Redirect, EndLoop, FbxCleanupFS,
         objects, programs
<1>8. Wake \/ ServeCollect \/ CheckEnd \/ End => UNCHANGED <<exists, request, answer>>
  BY DEF Wake, ServeCollect, CheckEnd, End, objects, programs
<1> QED
  BY <1>2, <1>3, <1>4, <1>5, <1>6, <1>7, <1>8 DEF Next, Handler, LockHandler

\* FbxDie and FbxLockHandlerProc: if the handler has priority over the programs,
\* they notice nothing of the shutdown but answers "no disk" (and, for a packet
\* that comes late, none), for any number of locks.
THEOREM Refinement ==
  ASSUME HandlerFirst
  PROVE  Spec => ServicePromise
<1>1. Init => Service!Init
  <2> SUFFICES ASSUME Init PROVE Service!Init
    OBVIOUS
  <2>1. Reliable \subseteq Object
    BY DEF Reliable, Object
  <2>2. /\ exists \cap Reliable = Reliable
        /\ request_of = [o \in Reliable |-> None] /\ answer_of = [o \in Reliable |-> "ok"]
    BY <2>1 DEF Init, request_of, answer_of
  <2> QED
    BY <2>2 DEF Service!Init, request_of, answer_of, None, Service!None
<1>2. IInv /\ [Next]_vars
        => [Service!Next]_<<exists \cap Reliable, [o \in Reliable |-> request[o]],
                            [o \in Reliable |-> answer[o]]>>
  BY StepKeepsPromise DEF promised, request_of, answer_of
<1> QED
  BY Invariance, <1>1, <1>2, PTL DEF Spec, ServicePromise, Service!Spec
=============================================================================
