---------------------------- MODULE FbxTimerProofs ----------------------------
(***************************************************************************)
(* Proofs about FbxTimer, for any callbacks, periods and timeouts, a clock *)
(* of any width and a loop of any slowness: callbacks are called and data  *)
(* is flushed in time, and the walk stays on the list.                     *)
(*                                                                         *)
(* The bounds are kept as a sum that grows with the clock: what has passed *)
(* since the last time something was looked at and found not due yet.      *)
(***************************************************************************)
EXTENDS FbxTimer, SequenceTheorems, TLAPS

-----------------------------------------------------------------------------
(* The clock *)

\* What has passed from t to n.
Gap(n, t) == (n + Wrap - t) % Wrap

LEMMA GapValue ==
  ASSUME NEW n \in 0..Wrap - 1, NEW t \in 0..Wrap
  PROVE  /\ Gap(n, t) = IF t <= n THEN n - t ELSE n + Wrap - t
         /\ Gap(n, t) \in Nat
<1> USE ConstantAssumption DEF ConstantAssumption
<1>1. CASE t <= n
  <2>1. n - t \in Nat /\ n - t < Wrap /\ n + Wrap - t = (n - t) + Wrap
    BY <1>1
  <2>2. \A y \in Nat : y < Wrap => (y + Wrap) % Wrap = y
    OBVIOUS
  <2> QED
    BY <1>1, <2>1, <2>2 DEF Gap
<1>2. CASE ~(t <= n)
  <2>1. n + Wrap - t \in Nat /\ n + Wrap - t < Wrap
    BY <1>2
  <2>2. \A y \in Nat : y < Wrap => y % Wrap = y
    OBVIOUS
  <2> QED
    BY <1>2, <2>1, <2>2 DEF Gap
<1> QED
  BY <1>1, <1>2

LEMMA NextTick ==
  ASSUME NEW n \in 0..Wrap - 1
  PROVE  /\ (n + 1) % Wrap = IF n = Wrap - 1 THEN 0 ELSE n + 1
         /\ (n + 1) % Wrap \in 0..Wrap - 1
<1> USE ConstantAssumption DEF ConstantAssumption
<1>1. \A y \in Nat : y < Wrap => y % Wrap = y
  OBVIOUS
<1>2. Wrap % Wrap = 0
  OBVIOUS
<1>3. CASE n = Wrap - 1
  BY <1>2, <1>3
<1>4. CASE n # Wrap - 1
  BY <1>1, <1>4
<1> QED
  BY <1>3, <1>4

\* Whether the clock wraps or not, no gap grows by more than one.
LEMMA GapGrows ==
  ASSUME NEW n \in 0..Wrap - 1, NEW t \in 0..Wrap
  PROVE  Gap((n + 1) % Wrap, t) <= Gap(n, t) + 1
<1> DEFINE m == (n + 1) % Wrap
<1>1. Wrap \in Nat \ {0}
  BY ConstantAssumption DEF ConstantAssumption
<1>2. m \in 0..Wrap - 1 /\ m = IF n = Wrap - 1 THEN 0 ELSE n + 1
  BY NextTick
<1>3. Gap(n, t) = IF t <= n THEN n - t ELSE n + Wrap - t
  BY GapValue
<1> HIDE DEF m
<1>4. Gap(m, t) = IF t <= m THEN m - t ELSE m + Wrap - t
  BY <1>2, GapValue
<1>5. Gap(m, t) <= Gap(n, t) + 1
  BY <1>1, <1>2, <1>3, <1>4
<1> QED
  BY <1>5 DEF m

LEMMA GapOfNow ==
  ASSUME NEW n \in 0..Wrap - 1
  PROVE  Gap(n, n) = 0
  BY GapValue, ConstantAssumption DEF ConstantAssumption

LEMMA GapOfOneLess ==
  ASSUME NEW n \in 0..Wrap - 1, NEW t \in 1..Wrap
  PROVE  Gap(n, t - 1) <= Gap(n, t) + 1
<1> DEFINE s == t - 1
<1>1. Wrap \in Nat \ {0}
  BY ConstantAssumption DEF ConstantAssumption
<1>2. s \in 0..Wrap /\ t \in 0..Wrap /\ s = t - 1
  BY <1>1
<1> HIDE DEF s
<1>3. Gap(n, t) = IF t <= n THEN n - t ELSE n + Wrap - t
  BY <1>2, GapValue
<1>4. Gap(n, s) = IF s <= n THEN n - s ELSE n + Wrap - s
  BY <1>2, GapValue
<1>5. Gap(n, s) <= Gap(n, t) + 1
  BY <1>1, <1>2, <1>3, <1>4
<1> QED
  BY <1>5 DEF s

-----------------------------------------------------------------------------
(* The inductive invariant *)

Types ==
  /\ now \in 0..Wrap - 1
  /\ left \in 0..Request /\ late \in 0..MaxLate /\ io \in {"idle", "sent", "replied"}
  /\ pc \in {"setup?", "wait", "packets", "timer?", "walk", "call", "flush?", "user?", "end"}
  /\ list \in Seq(Callback) /\ lastcall \in [Callback -> 0..Wrap - 1]
  /\ chain \in Callback \cup {END} /\ succ \in Callback \cup {END}
  /\ volume \in BOOLEAN /\ shutdown \in BOOLEAN
  /\ firstmodify \in 0..Wrap /\ lastmodify \in 0..Wrap

\* The request is at the device, has come back, or is used by the handler.
RequestInv ==
  /\ io = "idle" <=> pc \in {"walk", "call", "flush?", "end"}
  /\ io = "sent" => left \in 1..Request /\ late = 0
  /\ io = "replied" => left = 0

\* What has passed since the last turn of the timer, at least.
Turn == IF io = "sent" THEN Request - left ELSE Request + late

Listed(c) == \E i \in DOMAIN list : list[i] = c

\* The walk is between two nodes, and each callback is in the list once.
WalkInv ==
  /\ \A i, j \in DOMAIN list : list[i] = list[j] => i = j
  /\ pc = "walk" => chain = END \/ Listed(chain)
  /\ pc = "call" => Listed(chain) /\ succ = Succ(chain)

\* The node that the walk looks at next, and the callbacks it has looked at.
Todo == IF pc = "call" THEN succ ELSE chain

Done(c) ==
  \/ pc = "flush?"
  \/ /\ pc \in {"walk", "call"}
     /\ \/ Todo = END
        \/ \E i, j \in DOMAIN list : i < j /\ list[i] = c /\ list[j] = Todo

\* A callback that the walk has looked at was called or was not due then.
CallInv(c) ==
  Listed(c) /\ pc # "end" =>
    /\ Gap(now, lastcall[c]) <= Period[c] + MaxLate + Turn
    /\ Done(c) => Gap(now, lastcall[c]) <= Period[c] + late

\* Data that is not flushed was changed since the last turn, or was not due then.
FlushInv ==
  /\ firstmodify # 0 => volume /\ pc # "end"
  /\ firstmodify # 0 /\ Active # 0 => Gap(now, firstmodify - 1) <= Active + 1 + Turn
  /\ shutdown => ~volume /\ pc \notin {"setup?", "wait"}

IInv == Types /\ RequestInv /\ WalkInv /\ FlushInv /\ \A c \in Callback : CallInv(c)

-----------------------------------------------------------------------------
(* The list *)

LEMMA ListType ==
  ASSUME Types
  PROVE  /\ DOMAIN list = 1..Len(list) /\ Len(list) \in Nat
         /\ \A i \in DOMAIN list : list[i] \in Callback /\ list[i] # END
         /\ \A c : c \in Range(list) <=> Listed(c)
         /\ \A c : Listed(c) => c \in Callback
<1>1. list \in Seq(Callback)
  BY DEF Types
<1>2. DOMAIN list = 1..Len(list) /\ Len(list) \in Nat
  BY <1>1, LenProperties
<1>3. \A i \in DOMAIN list : list[i] \in Callback /\ list[i] # END
  BY <1>1, <1>2, ElementOfSeq, ConstantAssumption DEF ConstantAssumption
<1>4. \A c : c \in Range(list) <=> Listed(c)
  BY DEF Range, Listed
<1> QED
  BY <1>2, <1>3, <1>4 DEF Listed

LEMMA AppendValue ==
  ASSUME Types, NEW c \in Callback, NEW t, t = Append(list, c)
  PROVE  /\ DOMAIN list = 1..Len(list) /\ Len(list) \in Nat
         /\ DOMAIN t = 1..Len(list) + 1 /\ t[Len(list) + 1] = c
         /\ \A i \in 1..Len(list) : t[i] = list[i]
<1>1. list \in Seq(Callback) /\ DOMAIN list = 1..Len(list) /\ Len(list) \in Nat
  BY ListType DEF Types
<1>2. /\ t \in Seq(Callback) /\ Len(t) = Len(list) + 1 /\ t[Len(list) + 1] = c
      /\ \A i \in 1..Len(list) : t[i] = list[i]
  BY <1>1, AppendProperties
<1>3. DOMAIN t = 1..Len(list) + 1
  BY <1>2, LenProperties
<1> QED
  BY <1>1, <1>2, <1>3

LEMMA SuccValue ==
  ASSUME Types, WalkInv, NEW k \in DOMAIN list
  PROVE  Succ(list[k]) = IF k = Len(list) THEN END ELSE list[k + 1]
<1> DEFINE after == {i \in 2..Len(list) : list[i - 1] = list[k]}
<1>1. DOMAIN list = 1..Len(list) /\ Len(list) \in Nat
  BY ListType
<1>2. ASSUME NEW i \in 2..Len(list) PROVE list[i - 1] = list[k] <=> i = k + 1
  <2>1. i - 1 \in DOMAIN list /\ k \in Int
    BY <1>1
  <2>2. list[i - 1] = list[k] => i - 1 = k
    BY <2>1 DEF WalkInv
  <2>3. i - 1 = k <=> i = k + 1
    BY <2>1, <1>1
  <2> QED
    BY <2>2, <2>3, <1>1
<1>3. CASE k = Len(list)
  <2>1. after = {}
    BY <1>1, <1>2, <1>3
  <2> QED
    BY <1>3, <2>1 DEF Succ
<1>4. CASE k # Len(list)
  <2>1. k + 1 \in 2..Len(list)
    BY <1>1, <1>4
  <2>2. after = {k + 1}
    BY <1>2, <2>1
  <2>3. (CHOOSE i \in after : TRUE) = k + 1 /\ after # {}
    BY <2>2
  <2> QED
    BY <1>4, <2>3 DEF Succ
<1> QED
  BY <1>3, <1>4

LEMMA SuccListed ==
  ASSUME Types, WalkInv, NEW c, Listed(c)
  PROVE  Succ(c) = END \/ (Listed(Succ(c)) /\ Succ(c) # c)
<1>1. PICK k \in DOMAIN list : list[k] = c
  BY DEF Listed
<1>2. CASE k = Len(list)
  BY <1>1, <1>2, SuccValue
<1>3. CASE k # Len(list)
  <2>1. k + 1 \in DOMAIN list /\ k + 1 # k /\ Succ(c) = list[k + 1]
    BY <1>1, <1>3, SuccValue, ListType
  <2> QED
    BY <1>1, <2>1 DEF Listed, WalkInv
<1> QED
  BY <1>2, <1>3

LEMMA SuccType ==
  ASSUME Types, NEW c
  PROVE  Succ(c) \in Callback \cup {END}
<1> DEFINE after == {i \in 2..Len(list) : list[i - 1] = c}
<1>1. CASE after = {}
  BY <1>1 DEF Succ
<1>2. CASE after # {}
  <2>1. (CHOOSE i \in after : TRUE) \in after
    BY <1>2
  <2>2. after \subseteq DOMAIN list
    BY ListType
  <2> HIDE DEF after
  <2>3. list[CHOOSE i \in after : TRUE] \in Callback
    BY <2>1, <2>2, ListType
  <2>4. Succ(c) = list[CHOOSE i \in after : TRUE]
    BY <1>2 DEF Succ, after
  <2> QED
    BY <2>3, <2>4
<1> QED
  BY <1>1, <1>2

LEMMA WithoutType ==
  ASSUME Types, NEW c \in Range(list)
  PROVE  Without(c) \in Seq(Callback)
<1>1. PICK k \in DOMAIN list : Without(c) = RemoveAt(list, k)
  BY DEF Range, Without
<1>2. k \in 1..Len(list) /\ Len(list) \in Nat /\ list \in Seq(Callback)
  BY <1>1, ListType DEF Types
<1>3. SubSeq(list, 1, k - 1) \in Seq(Callback)
  <2>1. \A i \in 1..k - 1 : list[i] \in Callback
    BY <1>2, ElementOfSeq
  <2> QED
    BY <1>2, <2>1, SubSeqProperties
<1>4. SubSeq(list, k + 1, Len(list)) \in Seq(Callback)
  <2>1. \A i \in k + 1..Len(list) : list[i] \in Callback
    BY <1>2, ElementOfSeq
  <2> QED
    BY <1>2, <2>1, SubSeqProperties
<1> QED
  BY <1>1, <1>3, <1>4, ConcatProperties DEF RemoveAt

\* A list that another one is without c: the same callbacks in the same order.
LEMMA WithoutValue ==
  ASSUME Types, WalkInv, NEW c, Listed(c), NEW t, t = Without(c)
  PROVE  /\ t \in Seq(Callback)
         /\ \A i, j \in DOMAIN t : t[i] = t[j] => i = j
         /\ \A d : (\E i \in DOMAIN t : t[i] = d) <=> Listed(d) /\ d # c
         /\ \A i, j \in DOMAIN t : i < j =>
              \E m, n \in DOMAIN list : m < n /\ list[m] = t[i] /\ list[n] = t[j]
<1>1. DOMAIN list = 1..Len(list) /\ Len(list) \in Nat /\ list \in Seq(Callback)
  BY ListType DEF Types
<1>2. PICK k \in DOMAIN list : t = RemoveAt(list, k) /\ list[k] = c
  BY DEF Listed, Without
<1>3. /\ t \in Seq(Callback) /\ Len(t) = Len(list) - 1 /\ DOMAIN t = 1..Len(list) - 1
      /\ \A i \in 1..Len(list) - 1 : t[i] = IF i < k THEN list[i] ELSE list[i + 1]
  <2> DEFINE before == SubSeq(list, 1, k - 1)
             after  == SubSeq(list, k + 1, Len(list))
  <2>1. k \in 1..Len(list) /\ k \in Nat
    BY <1>1
  <2>2. /\ before \in Seq(Callback) /\ Len(before) = k - 1
        /\ \A i \in 1..k - 1 : before[i] = list[i]
    <3>1. \A i \in 1..k - 1 : list[i] \in Callback
      BY <1>1, <2>1, ElementOfSeq
    <3> QED
      BY <2>1, <3>1, SubSeqProperties
  <2>3. /\ after \in Seq(Callback) /\ Len(after) = Len(list) - k
        /\ \A i \in 1..Len(list) - k : after[i] = list[k + i]
    <3>1. \A i \in k + 1..Len(list) : list[i] \in Callback
      BY <1>1, <2>1, ElementOfSeq
    <3> QED
      BY <1>1, <2>1, <3>1, SubSeqProperties
  <2>4. t = before \o after
    BY <1>2 DEF RemoveAt
  <2> HIDE DEF before, after
  <2>5. /\ t \in Seq(Callback) /\ Len(t) = Len(list) - 1
        /\ \A i \in 1..Len(list) - 1 :
             t[i] = IF i <= k - 1 THEN before[i] ELSE after[i - (k - 1)]
    <3>1. /\ t \in Seq(Callback) /\ Len(t) = Len(before) + Len(after)
          /\ \A i \in 1..Len(before) + Len(after) :
               t[i] = IF i <= Len(before) THEN before[i] ELSE after[i - Len(before)]
      BY <2>2, <2>3, <2>4, ConcatProperties
    <3>2. Len(before) + Len(after) = Len(list) - 1
      BY <1>1, <2>1, <2>2, <2>3
    <3>3. Len(before) = k - 1
      BY <2>2
    <3> QED
      BY <3>1, <3>2, <3>3
  <2>6. ASSUME NEW i \in 1..Len(list) - 1
        PROVE  t[i] = IF i < k THEN list[i] ELSE list[i + 1]
    <3>1. CASE i < k
      BY <1>1, <2>1, <2>2, <2>5, <3>1
    <3>2. CASE ~(i < k)
      <4>1. i - (k - 1) \in 1..Len(list) - k /\ k + (i - (k - 1)) = i + 1 /\ ~(i <= k - 1)
        BY <1>1, <2>1, <3>2
      <4>2. after[i - (k - 1)] = list[k + (i - (k - 1))]
        BY <2>3, <4>1
      <4> QED
        BY <2>5, <3>2, <4>1, <4>2
    <3> QED
      BY <3>1, <3>2
  <2> QED
    BY <1>1, <2>5, <2>6, LenProperties
<1> DEFINE old(i) == IF i < k THEN i ELSE i + 1
<1>4. ASSUME NEW i \in DOMAIN t PROVE old(i) \in DOMAIN list /\ old(i) # k /\ t[i] = list[old(i)]
  BY <1>1, <1>3
<1>5. ASSUME NEW i \in DOMAIN t, NEW j \in DOMAIN t, i < j PROVE old(i) < old(j)
  BY <1>1, <1>3, <1>5
<1>6. ASSUME NEW i \in DOMAIN t, NEW j \in DOMAIN t, t[i] = t[j] PROVE i = j
  <2>1. old(i) = old(j)
    BY <1>4, <1>6 DEF WalkInv
  <2> QED
    BY <1>1, <1>3, <2>1
<1>7. ASSUME NEW i \in DOMAIN t PROVE Listed(t[i]) /\ t[i] # c
  BY <1>2, <1>4 DEF Listed, WalkInv
<1>8. ASSUME NEW d, Listed(d), d # c PROVE \E i \in DOMAIN t : t[i] = d
  <2>1. PICK m \in DOMAIN list : list[m] = d
    BY <1>8 DEF Listed
  <2>2. m # k
    BY <1>2, <1>8, <2>1
  <2>3. CASE m < k
    BY <1>1, <1>3, <2>1, <2>3
  <2>4. CASE ~(m < k)
    <3>1. m - 1 \in DOMAIN t /\ ~(m - 1 < k) /\ (m - 1) + 1 = m
      BY <1>1, <1>3, <2>2, <2>4
    <3> QED
      BY <1>3, <2>1, <3>1
  <2> QED
    BY <2>3, <2>4
<1> QED
  BY <1>3, <1>4, <1>5, <1>6, <1>7, <1>8

-----------------------------------------------------------------------------
(* Types, the request and the flush *)

LEMMA StampType ==
  ASSUME Types, NEW state \in BOOLEAN, FbxSetModifyState(state)
  PROVE  /\ firstmodify' \in 0..Wrap /\ lastmodify' \in 0..Wrap
         /\ ~state => firstmodify' = 0
         /\ state => /\ firstmodify' # 0
                     /\ firstmodify # 0 => firstmodify' = firstmodify
                     /\ firstmodify = 0 => Gap(now, firstmodify' - 1) <= 1
<1> DEFINE stamp == IF now = 0 THEN 1 ELSE now
<1>1. Wrap \in Nat \ {0} /\ now \in 0..Wrap - 1 /\ firstmodify \in 0..Wrap
  BY ConstantAssumption DEF ConstantAssumption, Types
<1>2. stamp \in 1..Wrap
  BY <1>1
<1>3. Gap(now, stamp - 1) <= 1
  <2> DEFINE s == stamp - 1
  <2>1. s \in 0..Wrap /\ s = IF now = 0 THEN 0 ELSE now - 1
    BY <1>1
  <2> HIDE DEF s
  <2>2. Gap(now, s) = IF s <= now THEN now - s ELSE now + Wrap - s
    BY <1>1, <2>1, GapValue
  <2>3. Gap(now, s) <= 1
    BY <1>1, <2>1, <2>2
  <2> QED
    BY <2>3 DEF s
<1>4. /\ lastmodify' = IF state THEN stamp ELSE 0
      /\ firstmodify' = IF ~state THEN 0 ELSE IF firstmodify = 0 THEN stamp ELSE firstmodify
  BY DEF FbxSetModifyState
<1> HIDE DEF stamp
<1> QED
  BY <1>1, <1>2, <1>3, <1>4

LEMMA TypesStep ==
  ASSUME Types, RequestInv, [Next]_vars
  PROVE  Types'
<1> USE DEF Types
<1>1. CASE Tick
  <2>1. now' \in 0..Wrap - 1
    BY <1>1, NextTick DEF Tick
  <2>2. left' \in 0..Request /\ late' \in 0..MaxLate /\ io' \in {"idle", "sent", "replied"}
    BY <1>1, ConstantAssumption DEF Tick, RequestInv, ConstantAssumption
  <2> QED
    BY <1>1, <2>1, <2>2 DEF Tick, walk, modify
<1>2. CASE \E c \in Callback : FbxInstallTimerCallback(c)
  <2>1. PICK c \in Callback : FbxInstallTimerCallback(c)
    BY <1>2
  <2>2. list' \in Seq(Callback)
    BY <2>1, AppendProperties DEF FbxInstallTimerCallback
  <2>3. lastcall' \in [Callback -> 0..Wrap - 1]
    BY <2>1 DEF FbxInstallTimerCallback
  <2> QED
    BY <2>1, <2>2, <2>3 DEF FbxInstallTimerCallback, time, modify
<1>3. CASE \E c \in Callback : FbxUninstallTimerCallback(c)
  <2>1. PICK c \in Callback : FbxUninstallTimerCallback(c)
    BY <1>3
  <2>2. list' \in Seq(Callback)
    BY <2>1, WithoutType DEF FbxUninstallTimerCallback
  <2>3. lastcall' \in [Callback -> 0..Wrap - 1]
    BY <2>1, ConstantAssumption DEF FbxUninstallTimerCallback, ConstantAssumption
  <2> QED
    BY <2>1, <2>2, <2>3 DEF FbxUninstallTimerCallback, time, modify
<1>4. CASE HandleTimerEvent
  <2>1. chain' \in Callback \cup {END}
    BY <1>4, HeadTailProperties DEF HandleTimerEvent
  <2> QED
    BY <1>4, <2>1 DEF HandleTimerEvent, modify
<1>5. CASE WalkCallbacks
  <2>1. lastcall' \in [Callback -> 0..Wrap - 1]
    BY <1>5 DEF WalkCallbacks
  <2>2. chain' \in Callback \cup {END} /\ succ' \in Callback \cup {END}
    BY <1>5, SuccType DEF WalkCallbacks
  <2>3. pc' \in {"walk", "call", "flush?"}
    BY <1>5 DEF WalkCallbacks
  <2> QED
    BY <1>5, <2>1, <2>2, <2>3 DEF WalkCallbacks, time, modify
<1>6. CASE CallFunction
  <2>1. list' \in Seq(Callback)
    BY <1>6, WithoutType DEF CallFunction
  <2>2. lastcall' \in [Callback -> 0..Wrap - 1]
    <3>1. 0 \in 0..Wrap - 1
      BY ConstantAssumption DEF ConstantAssumption
    <3>2. lastcall' = lastcall \/ \E d \in Range(list) : lastcall' = [lastcall EXCEPT ![d] = 0]
      BY <1>6 DEF CallFunction
    <3> QED
      BY <3>1, <3>2
  <2> QED
    BY <1>6, <2>1, <2>2 DEF CallFunction, time, modify
<1>7. CASE FlushAndRestart
  <2>1. firstmodify' \in 0..Wrap /\ lastmodify' \in 0..Wrap
    BY <1>7, StampType DEF FlushAndRestart
  <2>2. left' \in 0..Request /\ late' \in 0..MaxLate /\ io' = "sent"
    BY <1>7, ConstantAssumption DEF FlushAndRestart, FbxStartTimer, ConstantAssumption
  <2> QED
    BY <1>7, <2>1, <2>2 DEF FlushAndRestart, walk
<1>8. CASE ModifyPacket \/ FlushPacket \/ FbxDie \/ SetupVolume
  <2>1. firstmodify' \in 0..Wrap /\ lastmodify' \in 0..Wrap
    BY <1>8, StampType DEF ModifyPacket, FlushPacket, FbxDie, SetupVolume
  <2> QED
    BY <1>8, <2>1 DEF ModifyPacket, FlushPacket, FbxDie, SetupVolume, time, walk
<1>9. CASE FbxSetSignalCallback \/ SendSignal \/ ReadSignals \/ WaitSignals \/ NoMorePackets
  BY <1>9 DEF FbxSetSignalCallback, SendSignal, ReadSignals, WaitSignals, NoMorePackets,
              time, walk, modify
<1>10. CASE HandleUserEvent
  BY <1>10 DEF HandleUserEvent, walk, modify
<1>11. CASE UNCHANGED vars
  BY <1>11 DEF vars, time, walk, modify
<1> QED
  BY <1>1, <1>2, <1>3, <1>4, <1>5, <1>6, <1>7, <1>8, <1>9, <1>10, <1>11 DEF Next, EventLoop

LEMMA RequestStep ==
  ASSUME Types, RequestInv, [Next]_vars
  PROVE  RequestInv'
<1> USE DEF RequestInv
<1>1. CASE Tick
  BY <1>1, ConstantAssumption DEF Tick, Types, ConstantAssumption
<1>2. CASE \E c \in Callback : FbxInstallTimerCallback(c) \/ FbxUninstallTimerCallback(c)
  BY <1>2 DEF FbxInstallTimerCallback, FbxUninstallTimerCallback, time
<1>3. CASE HandleTimerEvent
  BY <1>3 DEF HandleTimerEvent
<1>4. CASE WalkCallbacks
  BY <1>4 DEF WalkCallbacks, time
<1>5. CASE CallFunction
  BY <1>5 DEF CallFunction, time
<1>6. CASE FlushAndRestart
  BY <1>6, ConstantAssumption DEF FlushAndRestart, FbxStartTimer, ConstantAssumption
<1>7. CASE ModifyPacket \/ FlushPacket \/ FbxDie \/ SetupVolume
  BY <1>7 DEF ModifyPacket, FlushPacket, FbxDie, SetupVolume, time
<1>8. CASE FbxSetSignalCallback \/ SendSignal \/ ReadSignals \/ WaitSignals \/ NoMorePackets
  BY <1>8 DEF FbxSetSignalCallback, SendSignal, ReadSignals, WaitSignals, NoMorePackets, time
<1>9. CASE HandleUserEvent
  BY <1>9 DEF HandleUserEvent
<1>10. CASE UNCHANGED vars
  BY <1>10 DEF vars, time
<1> QED
  BY <1>1, <1>2, <1>3, <1>4, <1>5, <1>6, <1>7, <1>8, <1>9, <1>10 DEF Next, EventLoop

\* The sum grows with the clock, and no step but these makes it smaller.
LEMMA TurnGrows ==
  ASSUME Types, RequestInv, Tick
  PROVE  Turn' = Turn + 1 /\ Turn \in 0..Request + MaxLate
<1>1. Request \in Nat /\ MaxLate \in Nat /\ left \in 0..Request /\ late \in 0..MaxLate
  BY ConstantAssumption DEF ConstantAssumption, Types
<1>2. CASE io = "sent"
  <2>1. /\ left \in 1..Request /\ late = 0 /\ left' = left - 1 /\ late' = late
        /\ io' = IF left = 1 THEN "replied" ELSE "sent"
    BY <1>2 DEF Tick, RequestInv
  <2> QED
    BY <1>1, <1>2, <2>1 DEF Turn
<1>3. CASE io # "sent"
  <2>1. late' = late + 1 /\ left' = left /\ io' = io
    BY <1>3 DEF Tick
  <2> QED
    BY <1>1, <1>3, <2>1 DEF Turn
<1> QED
  BY <1>2, <1>3

LEMMA TurnType ==
  ASSUME Types
  PROVE  Turn \in 0..Request + MaxLate
  BY ConstantAssumption DEF Types, Turn, ConstantAssumption

\* The clock and the sum grow together; a turn of the timer flushes what is due.
LEMMA FlushStep ==
  ASSUME Types, RequestInv, FlushInv, [Next]_vars
  PROVE  FlushInv'
<1> USE DEF FlushInv
<1>1. CASE Tick
  <2>1. now' = (now + 1) % Wrap /\ UNCHANGED <<pc, modify, shutdown>>
    BY <1>1 DEF Tick
  <2>2. ASSUME firstmodify # 0, Active # 0
        PROVE  Gap(now', firstmodify - 1) <= Active + 1 + Turn'
    <3>1. now \in 0..Wrap - 1 /\ firstmodify - 1 \in 0..Wrap
      BY <2>2, ConstantAssumption DEF Types, ConstantAssumption
    <3>2. now' \in 0..Wrap - 1
      BY <2>1, <3>1, NextTick
    <3>3. /\ Gap(now, firstmodify - 1) \in Nat /\ Gap(now', firstmodify - 1) \in Nat
          /\ Gap(now', firstmodify - 1) <= Gap(now, firstmodify - 1) + 1
      BY <2>1, <3>1, <3>2, GapValue, GapGrows
    <3> QED
      BY <1>1, <2>2, <3>3, TurnGrows, ConstantAssumption DEF ConstantAssumption
  <2> QED
    BY <2>1, <2>2 DEF modify
<1>2. CASE \E c \in Callback : FbxInstallTimerCallback(c) \/ FbxUninstallTimerCallback(c)
  BY <1>2 DEF FbxInstallTimerCallback, FbxUninstallTimerCallback, time, modify, Turn
<1>3. CASE HandleTimerEvent
  BY <1>3 DEF HandleTimerEvent, modify, Turn
<1>4. CASE WalkCallbacks
  BY <1>4 DEF WalkCallbacks, time, modify, Turn
<1>5. CASE CallFunction
  BY <1>5 DEF CallFunction, time, modify, Turn
<1>6. CASE FlushAndRestart
  <2>1. Turn' = 0
    BY <1>6, ConstantAssumption DEF FlushAndRestart, FbxStartTimer, Turn, ConstantAssumption
  <2>2. ASSUME firstmodify' # 0, Active # 0
        PROVE  firstmodify' = firstmodify /\ Gap(now, firstmodify - 1) <= Active + 1
    <3>1. firstmodify' = firstmodify /\ firstmodify # 0 /\ ~FlushDue
      BY <1>6, <2>2, StampType DEF FlushAndRestart
    <3>2. ~(Gap(now, firstmodify) > Active)
      BY <2>2, <3>1 DEF FlushDue, Since, Gap
    <3>3. now \in 0..Wrap - 1 /\ firstmodify \in 1..Wrap /\ firstmodify - 1 \in 0..Wrap
      BY <3>1, ConstantAssumption DEF Types, ConstantAssumption
    <3>4. /\ Gap(now, firstmodify) \in Nat /\ Gap(now, firstmodify - 1) \in Nat
          /\ Gap(now, firstmodify - 1) <= Gap(now, firstmodify) + 1
      BY <3>3, GapValue, GapOfOneLess
    <3> QED
      BY <3>1, <3>2, <3>4, ConstantAssumption DEF ConstantAssumption
  <2>3. firstmodify' # 0 => firstmodify # 0
    BY <1>6, StampType DEF FlushAndRestart
  <2>4. UNCHANGED <<now, volume, shutdown>> /\ pc' = "user?"
    BY <1>6 DEF FlushAndRestart
  <2> QED
    BY <2>1, <2>2, <2>3, <2>4, ConstantAssumption DEF ConstantAssumption
<1>7. CASE ModifyPacket
  <2>1. UNCHANGED <<now, time, pc, volume, shutdown>> /\ volume /\ pc = "packets"
    BY <1>7 DEF ModifyPacket
  <2>2. ASSUME Active # 0
        PROVE  Gap(now, firstmodify' - 1) <= Active + 1 + Turn
    <3>1. CASE firstmodify = 0
      <4>1. Gap(now, firstmodify' - 1) <= 1
        BY <1>7, <3>1, StampType DEF ModifyPacket
      <4>2. firstmodify' - 1 \in 0..Wrap /\ now \in 0..Wrap - 1
        <5>1. firstmodify' \in 0..Wrap /\ firstmodify' # 0
          BY <1>7, StampType DEF ModifyPacket
        <5>2. Wrap \in Nat /\ now \in 0..Wrap - 1
          BY ConstantAssumption DEF Types, ConstantAssumption
        <5>3. \A f \in 0..Wrap : f # 0 => f - 1 \in 0..Wrap
          BY <5>2
        <5> QED
          BY <5>1, <5>2, <5>3
      <4>3. Gap(now, firstmodify' - 1) \in Nat
        BY <4>2, GapValue
      <4> QED
        BY <4>1, <4>3, TurnType, ConstantAssumption DEF ConstantAssumption
    <3>2. CASE firstmodify # 0
      BY <1>7, <2>2, <3>2, StampType DEF ModifyPacket
    <3> QED
      BY <3>1, <3>2
  <2> QED
    BY <2>1, <2>2 DEF time, Turn
<1>8. CASE FlushPacket \/ FbxDie \/ SetupVolume
  <2>1. firstmodify' = 0
    BY <1>8, StampType DEF FlushPacket, FbxDie, SetupVolume
  <2> QED
    <3>1. CASE FlushPacket
      BY <2>1, <3>1 DEF FlushPacket
    <3>2. CASE FbxDie
      BY <2>1, <3>2 DEF FbxDie
    <3>3. CASE SetupVolume
      BY <2>1, <3>3 DEF SetupVolume
    <3> QED
      BY <1>8, <3>1, <3>2, <3>3
<1>9. CASE FbxSetSignalCallback \/ SendSignal \/ ReadSignals \/ WaitSignals \/ NoMorePackets
  BY <1>9 DEF FbxSetSignalCallback, SendSignal, ReadSignals, WaitSignals, NoMorePackets,
              time, modify, Turn
<1>10. CASE HandleUserEvent
  BY <1>10 DEF HandleUserEvent, modify, Turn
<1>11. CASE UNCHANGED vars
  BY <1>11 DEF vars, time, modify, Turn
<1> QED
  BY <1>1, <1>2, <1>3, <1>4, <1>5, <1>6, <1>7, <1>8, <1>9, <1>10, <1>11 DEF Next, EventLoop

-----------------------------------------------------------------------------
(* The walk over the list *)

\* The functions of callbacks uninstall no callback but their own.
OnlyThemselves == \A c, d : <<c, d>> \in Uninstalls => c = d

LEMMA WalkStep ==
  ASSUME OnlyThemselves, Types, WalkInv, [Next]_vars
  PROVE  WalkInv'
<1>1. CASE UNCHANGED <<list, chain, succ, pc>>
  BY <1>1 DEF WalkInv, Listed, Succ
<1>2. CASE UNCHANGED list /\ pc' \notin {"walk", "call"}
  BY <1>2 DEF WalkInv
<1>3. CASE Tick \/ ModifyPacket \/ FlushPacket \/ FbxDie \/ SetupVolume
           \/ FbxSetSignalCallback \/ SendSignal \/ UNCHANGED vars
  BY <1>1, <1>3 DEF Tick, ModifyPacket, FlushPacket, FbxDie, SetupVolume,
                    FbxSetSignalCallback, SendSignal, walk, vars
<1>4. CASE ReadSignals \/ WaitSignals \/ NoMorePackets \/ FlushAndRestart \/ HandleUserEvent
  BY <1>2, <1>4 DEF ReadSignals, WaitSignals, NoMorePackets, FlushAndRestart,
                    HandleUserEvent, walk
<1>5. ASSUME NEW c \in Callback, FbxInstallTimerCallback(c)
      PROVE  WalkInv'
  <2>1. list' = Append(list, c) /\ c \notin Range(list) /\ pc' \notin {"walk", "call"}
    BY <1>5 DEF FbxInstallTimerCallback, Free
  <2>2. /\ Len(list) \in Nat /\ DOMAIN list = 1..Len(list)
        /\ \A i \in 1..Len(list) : list'[i] = list[i]
        /\ list'[Len(list) + 1] = c
    BY <2>1, AppendValue
  <2>3. DOMAIN list' = 1..Len(list) + 1
    BY <2>1, AppendValue
  <2>4. \A i \in DOMAIN list : list[i] # c
    BY <2>1 DEF Range
  <2>5. ASSUME NEW i \in DOMAIN list', NEW j \in DOMAIN list', list'[i] = list'[j]
        PROVE  i = j
    <3>1. CASE i \in DOMAIN list /\ j \in DOMAIN list
      BY <2>2, <2>5, <3>1 DEF WalkInv
    <3>2. CASE i \notin DOMAIN list \/ j \notin DOMAIN list
      BY <2>2, <2>3, <2>4, <2>5, <3>2
    <3> QED
      BY <3>1, <3>2
  <2> QED
    BY <2>1, <2>5 DEF WalkInv
<1>6. ASSUME NEW c \in Callback, FbxUninstallTimerCallback(c)
      PROVE  WalkInv'
  <2>1. list' = Without(c) /\ Listed(c) /\ pc' \notin {"walk", "call"}
    BY <1>6, ListType DEF FbxUninstallTimerCallback, Free
  <2> QED
    BY <2>1, WithoutValue DEF WalkInv
<1>7. CASE HandleTimerEvent
  <2>1. /\ list' = list /\ pc' # "call"
        /\ pc' = "walk" => chain' = IF list = <<>> THEN END ELSE Head(list)
    BY <1>7 DEF HandleTimerEvent
  <2>2. list # <<>> => Listed(Head(list))
    BY ListType, HeadTailProperties, EmptySeq DEF Types, Listed
  <2> QED
    BY <2>1, <2>2 DEF WalkInv, Listed
<1>8. CASE WalkCallbacks
  <2>1. list' = list /\ pc = "walk" /\ (chain = END \/ Listed(chain))
    BY <1>8 DEF WalkCallbacks, WalkInv
  <2>2. CASE chain = END
    BY <1>2, <1>8, <2>1, <2>2 DEF WalkCallbacks
  <2>3. CASE chain # END /\ Since(lastcall[chain]) > Period[chain]
    <3>1. chain' = chain /\ succ' = Succ(chain) /\ pc' = "call"
      BY <1>8, <2>3 DEF WalkCallbacks
    <3>2. Listed(chain)' /\ succ' = Succ(chain)'
      BY <2>1, <2>3, <3>1 DEF Listed, Succ
    <3> QED
      BY <2>1, <3>1, <3>2 DEF WalkInv
  <2>4. CASE chain # END /\ ~(Since(lastcall[chain]) > Period[chain])
    <3>1. chain' = Succ(chain) /\ pc' = "walk"
      BY <1>8, <2>1, <2>4 DEF WalkCallbacks
    <3>2. chain' = END \/ Listed(chain')
      BY <2>1, <2>4, <3>1, SuccListed
    <3> QED
      BY <2>1, <3>1, <3>2 DEF WalkInv, Listed
  <2> QED
    BY <2>2, <2>3, <2>4
<1>9. CASE CallFunction
  <2>1. Listed(chain) /\ succ = Succ(chain) /\ chain' = succ /\ pc' = "walk"
    BY <1>9 DEF CallFunction, WalkInv
  <2>2. succ = END \/ (Listed(succ) /\ succ # chain)
    BY <2>1, SuccListed
  <2>3. list' = list \/ list' = Without(chain)
    BY <1>9 DEF CallFunction, OnlyThemselves
  <2>4. CASE list' = list
    BY <2>1, <2>2, <2>4 DEF WalkInv, Listed
  <2>5. CASE list' = Without(chain)
    <3>1. /\ \A i, j \in DOMAIN list' : list'[i] = list'[j] => i = j
          /\ succ = END \/ \E i \in DOMAIN list' : list'[i] = succ
      BY <2>1, <2>2, <2>5, WithoutValue
    <3> QED
      BY <2>1, <3>1 DEF WalkInv, Listed
  <2> QED
    BY <2>3, <2>4, <2>5
<1> QED
  BY <1>3, <1>4, <1>5, <1>6, <1>7, <1>8, <1>9 DEF Next, EventLoop

-----------------------------------------------------------------------------
(* What the walk has looked at *)

\* When the walk goes on from c, what it has looked at is c and what it had
\* looked at before.
LEMMA Advance ==
  ASSUME Types, WalkInv, NEW c, Listed(c), NEW d, Listed(d), c # d,
         Succ(d) = END \/ \E i, j \in DOMAIN list : i < j /\ list[i] = c /\ list[j] = Succ(d)
  PROVE  \E i, j \in DOMAIN list : i < j /\ list[i] = c /\ list[j] = d
<1>1. DOMAIN list = 1..Len(list) /\ Len(list) \in Nat
  BY ListType
<1>2. PICK k \in DOMAIN list : list[k] = d
  BY DEF Listed
<1>3. PICK i \in DOMAIN list : list[i] = c
  BY DEF Listed
<1>4. i # k
  BY <1>2, <1>3
<1>5. CASE k = Len(list)
  BY <1>1, <1>2, <1>3, <1>4, <1>5
<1>6. CASE k # Len(list)
  <2>1. k + 1 \in DOMAIN list /\ Succ(d) = list[k + 1] /\ list[k + 1] # END
    BY <1>1, <1>2, <1>6, SuccValue, ListType
  <2>2. PICK m, n \in DOMAIN list : m < n /\ list[m] = c /\ list[n] = Succ(d)
    BY <2>1
  <2>3. m = i /\ n = k + 1
    BY <1>3, <2>1, <2>2 DEF WalkInv
  <2>4. i < k
    BY <1>1, <1>4, <2>2, <2>3
  <2> QED
    BY <1>2, <1>3, <2>4
<1> QED
  BY <1>5, <1>6

LEMMA LastcallType ==
  ASSUME Types, NEW c \in Callback
  PROVE  lastcall[c] \in 0..Wrap /\ now \in 0..Wrap - 1
<1>1. lastcall[c] \in 0..Wrap - 1 /\ now \in 0..Wrap - 1
  BY DEF Types
<1>2. Wrap \in Nat
  BY ConstantAssumption DEF ConstantAssumption
<1> QED
  BY <1>1, <1>2

\* Steps that change neither the clock nor the list, nor when c was called.
LEMMA CallKept ==
  ASSUME Types, NEW c \in Callback, CallInv(c),
         UNCHANGED <<now, late>>, Listed(c)' => Listed(c), pc = "end" => pc' = "end",
         lastcall'[c] = lastcall[c], pc' = "end" \/ Turn <= Turn', Turn' \in Nat,
         Listed(c)' /\ Done(c)' => Done(c)
  PROVE  CallInv(c)'
<1> SUFFICES ASSUME Listed(c)', pc' # "end"
             PROVE  /\ Gap(now, lastcall'[c]) <= Period[c] + MaxLate + Turn'
                    /\ Done(c)' => Gap(now, lastcall'[c]) <= Period[c] + late
  BY DEF CallInv
<1>1. /\ Gap(now, lastcall[c]) <= Period[c] + MaxLate + Turn
      /\ Done(c) => Gap(now, lastcall[c]) <= Period[c] + late
  BY DEF CallInv
<1>2. Gap(now, lastcall[c]) \in Nat
  BY LastcallType, GapValue
<1>3. Turn \in Nat /\ Period[c] \in Nat /\ MaxLate \in Nat
  BY TurnType, ConstantAssumption DEF ConstantAssumption
<1> QED
  BY <1>1, <1>2, <1>3

\* c was called, or installed, just now.
LEMMA CallFresh ==
  ASSUME Types, Types', NEW c \in Callback, lastcall'[c] = now', Turn' \in Nat
  PROVE  CallInv(c)'
<1>1. Gap(now', lastcall'[c]) = 0
  BY GapOfNow DEF Types
<1>2. Period[c] \in Nat /\ MaxLate \in Nat /\ late' \in Nat
  BY ConstantAssumption DEF ConstantAssumption, Types
<1> QED
  BY <1>1, <1>2 DEF CallInv

LEMMA CallStep ==
  ASSUME OnlyThemselves, Types, Types', RequestInv, WalkInv,
         FlushInv, [Next]_vars, NEW c \in Callback, CallInv(c)
  PROVE  CallInv(c)'
<1>0. Turn \in Nat /\ Turn' \in Nat
  <2>1. Turn \in Nat
    BY TurnType, ConstantAssumption DEF ConstantAssumption
  <2>2. Turn' \in Nat
    <3>1. left' \in 0..Request /\ late' \in 0..MaxLate
      BY DEF Types
    <3>2. Request \in Nat /\ MaxLate \in Nat
      BY ConstantAssumption DEF ConstantAssumption
    <3>3. Request - left' \in Nat /\ Request + late' \in Nat
      <4>1. \A l \in 0..Request, k \in 0..MaxLate : Request - l \in Nat /\ Request + k \in Nat
        BY <3>2
      <4> QED
        BY <3>1, <4>1
    <3> QED
      BY <3>3 DEF Turn
  <2> QED
    BY <2>1, <2>2
<1>1. CASE Tick
  <2>1. now' = (now + 1) % Wrap /\ UNCHANGED <<pc, list, lastcall, chain, succ>>
    BY <1>1 DEF Tick, walk
  <2>2. (Listed(c)' <=> Listed(c)) /\ (Done(c)' <=> Done(c))
    BY <2>1 DEF Listed, Done, Todo
  <2>3. Done(c) => late' = late + 1
    BY <1>1 DEF Tick, Done, RequestInv
  <2>4. Gap(now', lastcall[c]) <= Gap(now, lastcall[c]) + 1 /\ Turn' = Turn + 1
    BY <1>1, <2>1, LastcallType, GapGrows, TurnGrows
  <2>5. Gap(now, lastcall[c]) \in Nat /\ Gap(now', lastcall[c]) \in Nat
    BY <2>1, LastcallType, NextTick, GapValue
  <2>6. Period[c] \in Nat /\ MaxLate \in Nat /\ late \in Nat
    BY ConstantAssumption DEF ConstantAssumption, Types
  <2> QED
    BY <1>0, <2>1, <2>2, <2>3, <2>4, <2>5, <2>6 DEF CallInv
<1>2. CASE UNCHANGED <<now, late, list, lastcall, chain, succ, pc>> /\ Turn' = Turn
  <2>1. (Listed(c)' <=> Listed(c)) /\ (Done(c)' <=> Done(c))
    BY <1>2 DEF Listed, Done, Todo
  <2> QED
    BY <1>0, <1>2, <2>1, CallKept
<1>3. CASE ModifyPacket \/ FlushPacket \/ FbxDie \/ SetupVolume
           \/ FbxSetSignalCallback \/ SendSignal \/ UNCHANGED vars
  BY <1>2, <1>3 DEF ModifyPacket, FlushPacket, FbxDie, SetupVolume, FbxSetSignalCallback,
                    SendSignal, walk, time, vars, Turn
<1>4. CASE ReadSignals \/ WaitSignals \/ NoMorePackets
  <2>1. /\ UNCHANGED <<now, late, list, lastcall>> /\ Turn' = Turn
        /\ pc # "end" /\ pc' \notin {"walk", "call", "flush?"}
    BY <1>4 DEF ReadSignals, WaitSignals, NoMorePackets, time, walk, Turn
  <2>2. (Listed(c)' <=> Listed(c)) /\ ~Done(c)'
    BY <2>1 DEF Listed, Done
  <2> QED
    BY <1>0, <2>1, <2>2, CallKept
<1>5. CASE HandleUserEvent
  <2>1. CASE shutdown
    BY <1>5, <2>1 DEF HandleUserEvent, CallInv
  <2>2. CASE ~shutdown
    <3>1. /\ UNCHANGED <<now, late, list, lastcall>> /\ Turn' = Turn
          /\ pc # "end" /\ pc' = "setup?"
      BY <1>5, <2>2 DEF HandleUserEvent, walk, Turn
    <3>2. (Listed(c)' <=> Listed(c)) /\ ~Done(c)'
      BY <3>1 DEF Listed, Done
    <3> QED
      BY <1>0, <3>1, <3>2, CallKept
  <2> QED
    BY <2>1, <2>2
<1>6. ASSUME NEW d \in Callback, FbxInstallTimerCallback(d)
      PROVE  CallInv(c)'
  <2>1. /\ UNCHANGED <<now, late, pc>> /\ Turn' = Turn /\ pc \notin {"end", "walk", "call"}
        /\ list' = Append(list, d) /\ lastcall' = [lastcall EXCEPT ![d] = now]
    BY <1>6 DEF FbxInstallTimerCallback, time, Turn, Free
  <2>2. CASE c = d
    <3>1. lastcall'[c] = now'
      BY <2>1, <2>2 DEF Types
    <3> QED
      BY <1>0, <3>1, CallFresh
  <2>3. CASE c # d
    <3>1. lastcall'[c] = lastcall[c]
      BY <2>1, <2>3 DEF Types
    <3>2. Listed(c)' => Listed(c)
      <4>1. /\ DOMAIN list = 1..Len(list) /\ DOMAIN list' = 1..Len(list) + 1
            /\ Len(list) \in Nat /\ list'[Len(list) + 1] = d
            /\ \A i \in 1..Len(list) : list'[i] = list[i]
        BY <2>1, AppendValue
      <4> QED
        BY <2>3, <4>1 DEF Listed
    <3>3. Done(c)' => Done(c)
      BY <2>1 DEF Done
    <3> QED
      BY <1>0, <2>1, <3>1, <3>2, <3>3, CallKept
  <2> QED
    BY <2>2, <2>3
<1>7. ASSUME NEW d \in Callback, FbxUninstallTimerCallback(d)
      PROVE  CallInv(c)'
  <2>1. /\ UNCHANGED <<now, late, pc>> /\ Turn' = Turn /\ pc \notin {"end", "walk", "call"}
        /\ list' = Without(d) /\ lastcall' = [lastcall EXCEPT ![d] = 0] /\ Listed(d)
    BY <1>7, ListType DEF FbxUninstallTimerCallback, time, Turn, Free
  <2>2. Listed(c)' <=> Listed(c) /\ c # d
    <3>1. \A e : (\E i \in DOMAIN list' : list'[i] = e) <=> Listed(e) /\ e # d
      BY <2>1, WithoutValue
    <3> QED
      BY <3>1 DEF Listed
  <2>3. CASE c = d
    BY <2>2, <2>3 DEF CallInv
  <2>4. CASE c # d
    <3>1. lastcall'[c] = lastcall[c]
      BY <2>1, <2>4 DEF Types
    <3>2. Done(c)' => Done(c)
      BY <2>1 DEF Done
    <3> QED
      BY <1>0, <2>1, <2>2, <3>1, <3>2, CallKept
  <2> QED
    BY <2>3, <2>4
<1>8. CASE HandleTimerEvent
  <2>1. UNCHANGED <<now, late, list, lastcall>> /\ Turn' = Turn /\ pc = "timer?"
    BY <1>8 DEF HandleTimerEvent, Turn
  <2>2. Listed(c)' <=> Listed(c)
    BY <2>1 DEF Listed
  <2>3. ASSUME Listed(c) PROVE ~Done(c)'
    <3>1. CASE pc' # "walk"
      BY <1>8, <3>1 DEF HandleTimerEvent, Done
    <3>2. CASE pc' = "walk"
      <4>1. /\ DOMAIN list = 1..Len(list) /\ Len(list) \in Nat /\ list # <<>>
            /\ list[1] # END /\ 1 \in DOMAIN list
        BY <2>3, ListType, EmptySeq DEF Listed
      <4>2. chain' = list[1]
        BY <1>8, <3>2, <4>1, HeadTailProperties DEF HandleTimerEvent, Types
      <4>3. ~\E i, j \in DOMAIN list : i < j /\ list[i] = c /\ list[j] = list[1]
        BY <4>1 DEF WalkInv
      <4> QED
        BY <2>1, <3>2, <4>1, <4>2, <4>3 DEF Done, Todo
    <3> QED
      BY <3>1, <3>2
  <2> QED
    BY <1>0, <2>1, <2>2, <2>3, CallKept
<1>9. CASE WalkCallbacks
  <2>1. UNCHANGED <<now, late, list>> /\ Turn' = Turn /\ pc = "walk" /\ Todo = chain
    BY <1>9 DEF WalkCallbacks, time, Turn, Todo
  <2>2. Listed(c)' <=> Listed(c)
    BY <2>1 DEF Listed
  <2>3. CASE chain = END
    <3>1. lastcall' = lastcall /\ Done(c)
      BY <1>9, <2>1, <2>3 DEF WalkCallbacks, Done
    <3> QED
      BY <1>0, <2>1, <2>2, <3>1, CallKept
  <2>4. CASE chain # END /\ Since(lastcall[chain]) > Period[chain]
    <3>1. /\ lastcall' = [lastcall EXCEPT ![chain] = now] /\ pc' = "call"
          /\ succ' = Succ(chain)
      BY <1>9, <2>1, <2>4 DEF WalkCallbacks
    <3>2. CASE c = chain
      <4>1. lastcall'[c] = now'
        BY <2>1, <3>1, <3>2 DEF Types
      <4> QED
        BY <1>0, <4>1, CallFresh
    <3>3. CASE c # chain
      <4>1. lastcall'[c] = lastcall[c]
        BY <3>1, <3>3 DEF Types
      <4>2. ASSUME Listed(c), Done(c)' PROVE Done(c)
        <5>1. Succ(chain) = END
              \/ \E i, j \in DOMAIN list : i < j /\ list[i] = c /\ list[j] = Succ(chain)
          BY <2>1, <3>1, <4>2 DEF Done, Todo
        <5>2. Listed(chain)
          BY <2>1, <2>4 DEF WalkInv
        <5> QED
          BY <2>1, <3>3, <4>2, <5>1, <5>2, Advance DEF Done
      <4> QED
        BY <1>0, <2>1, <2>2, <4>1, <4>2, CallKept
    <3> QED
      BY <3>2, <3>3
  <2>5. CASE chain # END /\ ~(Since(lastcall[chain]) > Period[chain])
    <3>1. lastcall' = lastcall /\ pc' = "walk" /\ chain' = Succ(chain)
      BY <1>9, <2>1, <2>5 DEF WalkCallbacks
    <3>2. CASE c = chain
      <4>1. Gap(now, lastcall[c]) \in Nat /\ ~(Gap(now, lastcall[c]) > Period[c])
        BY <2>5, <3>2, LastcallType, GapValue DEF Since, Gap
      <4>2. Period[c] \in Nat /\ MaxLate \in Nat /\ late' \in Nat
        BY ConstantAssumption DEF ConstantAssumption, Types
      <4> QED
        BY <1>0, <2>1, <3>1, <4>1, <4>2 DEF CallInv
    <3>3. CASE c # chain
      <4>1. ASSUME Listed(c), Done(c)' PROVE Done(c)
        <5>1. Succ(chain) = END
              \/ \E i, j \in DOMAIN list : i < j /\ list[i] = c /\ list[j] = Succ(chain)
          BY <2>1, <3>1, <4>1 DEF Done, Todo
        <5>2. Listed(chain)
          BY <2>1, <2>5 DEF WalkInv
        <5> QED
          BY <2>1, <3>3, <4>1, <5>1, <5>2, Advance DEF Done
      <4> QED
        BY <1>0, <2>1, <2>2, <3>1, <4>1, CallKept
    <3> QED
      BY <3>2, <3>3
  <2> QED
    BY <2>3, <2>4, <2>5
<1>10. CASE CallFunction
  <2>1. /\ UNCHANGED <<now, late>> /\ Turn' = Turn /\ pc = "call" /\ pc' = "walk"
        /\ chain' = succ /\ Todo = succ /\ Listed(chain)
    BY <1>10 DEF CallFunction, time, Turn, Todo, WalkInv
  <2>2. \/ list' = list /\ lastcall' = lastcall
        \/ list' = Without(chain) /\ lastcall' = [lastcall EXCEPT ![chain] = 0]
    BY <1>10 DEF CallFunction, OnlyThemselves
  <2>3. CASE list' = list /\ lastcall' = lastcall
    <3>1. (Listed(c)' <=> Listed(c)) /\ (Done(c)' <=> Done(c))
      BY <2>1, <2>3 DEF Listed, Done, Todo
    <3> QED
      BY <1>0, <2>1, <2>3, <3>1, CallKept
  <2>4. CASE list' = Without(chain) /\ lastcall' = [lastcall EXCEPT ![chain] = 0]
    <3>1. Listed(c)' <=> Listed(c) /\ c # chain
      BY <2>1, <2>4, WithoutValue DEF Listed
    <3>2. CASE c = chain
      BY <3>1, <3>2 DEF CallInv
    <3>3. CASE c # chain
      <4>1. lastcall'[c] = lastcall[c]
        BY <2>4, <3>3 DEF Types
      <4>2. ASSUME Done(c)' PROVE Done(c)
        <5>1. succ = END
              \/ \E i, j \in DOMAIN list' : i < j /\ list'[i] = c /\ list'[j] = succ
          BY <2>1, <4>2 DEF Done, Todo
        <5>2. succ = END
              \/ \E i, j \in DOMAIN list : i < j /\ list[i] = c /\ list[j] = succ
          BY <2>1, <2>4, <5>1, WithoutValue
        <5> QED
          BY <2>1, <5>2 DEF Done
      <4> QED
        BY <1>0, <2>1, <3>1, <4>1, <4>2, CallKept
    <3> QED
      BY <3>2, <3>3
  <2> QED
    BY <2>2, <2>3, <2>4
<1>11. CASE FlushAndRestart
  <2>1. /\ UNCHANGED <<now, list, lastcall>> /\ pc = "flush?" /\ pc' = "user?"
    BY <1>11 DEF FlushAndRestart, walk
  <2>2. Turn' = 0
    BY <1>11, ConstantAssumption DEF FlushAndRestart, FbxStartTimer, Turn, ConstantAssumption
  <2>3. Listed(c) => Gap(now, lastcall[c]) <= Period[c] + late
    BY <2>1 DEF CallInv, Done
  <2>4. Gap(now, lastcall[c]) \in Nat
    BY LastcallType, GapValue
  <2>5. Period[c] \in Nat /\ late \in 0..MaxLate /\ MaxLate \in Nat
    BY ConstantAssumption DEF ConstantAssumption, Types
  <2>6. (Listed(c)' <=> Listed(c)) /\ ~Done(c)'
    BY <2>1 DEF Listed, Done
  <2> QED
    BY <2>1, <2>2, <2>3, <2>4, <2>5, <2>6 DEF CallInv
<1> QED
  BY <1>1, <1>3, <1>4, <1>5, <1>6, <1>7, <1>8, <1>9, <1>10, <1>11 DEF Next, EventLoop

-----------------------------------------------------------------------------
(* Theorems *)

\* What holds whatever the functions of the callbacks do.
LoopInv == Types /\ RequestInv /\ FlushInv

LEMMA Start ==
  ASSUME Init
  PROVE  LoopInv /\ IInv
<1>1. /\ Wrap \in Nat \ {0} /\ Request \in Nat \ {0} /\ MaxLate \in Nat
      /\ 0 \in 0..Wrap - 1 /\ 0 \in 0..Wrap /\ 0 \in 0..MaxLate /\ Request \in 1..Request
  BY ConstantAssumption DEF ConstantAssumption
<1>2. list = <<>> /\ DOMAIN list = {}
  BY EmptySeq DEF Init
<1>3. Types
  <2>1. list \in Seq(Callback)
    BY <1>2, EmptySeq
  <2>2. lastcall \in [Callback -> 0..Wrap - 1]
    BY <1>1 DEF Init
  <2>3. left \in 0..Request /\ late \in 0..MaxLate /\ now \in 0..Wrap - 1
    BY <1>1 DEF Init
  <2> QED
    BY <1>1, <2>1, <2>2, <2>3 DEF Init, Types
<1>4. RequestInv
  BY <1>1 DEF Init, RequestInv
<1>5. FlushInv
  BY DEF Init, FlushInv
<1>6. WalkInv
  BY <1>2 DEF Init, WalkInv
<1>7. \A c \in Callback : CallInv(c)
  BY <1>2 DEF CallInv, Listed
<1> QED
  BY <1>3, <1>4, <1>5, <1>6, <1>7 DEF LoopInv, IInv

\* Types, where the request is, and what is known of data not flushed: the
\* handler's loop keeps this whatever the functions of the callbacks do.
THEOREM LoopInvariance == Spec => []LoopInv
<1>1. Init => LoopInv
  BY Start
<1>2. LoopInv /\ [Next]_vars => LoopInv'
  BY TypesStep, RequestStep, FlushStep DEF LoopInv
<1> QED
  BY <1>1, <1>2, PTL DEF Spec

\* Changed data is flushed at the latest when the active timeout, one request
\* and one turn of the loop have passed since the first change.
THEOREM FlushedInTimeHolds == Spec => []FlushedInTime
<1>1. LoopInv => FlushedInTime
  <2> SUFFICES ASSUME LoopInv, firstmodify # 0, Active # 0
               PROVE  Since(firstmodify - 1) <= Active + 1 + Request + MaxLate
    BY DEF FlushedInTime
  <2>1. Gap(now, firstmodify - 1) <= Active + 1 + Turn
    BY DEF LoopInv, FlushInv
  <2>2. firstmodify - 1 \in 0..Wrap /\ now \in 0..Wrap - 1
    BY ConstantAssumption DEF LoopInv, Types, ConstantAssumption
  <2>3. Gap(now, firstmodify - 1) \in Nat
    BY <2>2, GapValue
  <2>4. Gap(now, firstmodify - 1) <= Active + 1 + Request + MaxLate
    BY <2>1, <2>3, TurnType, ConstantAssumption DEF LoopInv, ConstantAssumption
  <2> QED
    BY <2>4 DEF Since, Gap
<1> QED
  BY <1>1, LoopInvariance, PTL

\* The invariant of the loop and of its walk over the callbacks.
THEOREM Invariance ==
  ASSUME OnlyThemselves
  PROVE  Spec => []IInv
<1>1. Init => IInv
  BY Start
<1>2. IInv /\ [Next]_vars => IInv'
  <2> SUFFICES ASSUME IInv, [Next]_vars
               PROVE  IInv'
    OBVIOUS
  <2>1. Types' /\ RequestInv' /\ FlushInv' /\ WalkInv'
    BY TypesStep, RequestStep, FlushStep, WalkStep DEF IInv
  <2>2. ASSUME NEW c \in Callback PROVE CallInv(c)'
    BY <2>1, CallStep DEF IInv
  <2> QED
    BY <2>1, <2>2 DEF IInv
<1> QED
  BY <1>1, <1>2, PTL DEF Spec

\* A callback that is in the list is called before its period, one request and
\* two turns of the loop have passed, whatever wrap of the clock falls in between.
THEOREM CalledInTimeHolds ==
  ASSUME OnlyThemselves
  PROVE  Spec => []CalledInTime
<1>1. IInv => CalledInTime
  <2> SUFFICES ASSUME IInv, pc # "end", NEW c \in Range(list)
               PROVE  Since(lastcall[c]) <= Period[c] + Request + 2 * MaxLate
    BY DEF CalledInTime
  <2>1. Listed(c) /\ c \in Callback
    BY ListType DEF IInv
  <2>2. Gap(now, lastcall[c]) <= Period[c] + MaxLate + Turn
    BY <2>1 DEF IInv, CallInv
  <2>3. Gap(now, lastcall[c]) \in Nat
    BY <2>1, LastcallType, GapValue DEF IInv
  <2>4. Period[c] \in Nat
    BY <2>1, ConstantAssumption DEF ConstantAssumption
  <2>5. Gap(now, lastcall[c]) <= Period[c] + Request + 2 * MaxLate
    BY <2>2, <2>3, <2>4, TurnType, ConstantAssumption DEF IInv, ConstantAssumption
  <2> QED
    BY <2>5 DEF Since, Gap
<1> QED
  BY <1>1, Invariance, PTL

\* The walk never reads a callback that was uninstalled and freed.
THEOREM WalkOnListedHolds ==
  ASSUME OnlyThemselves
  PROVE  Spec => []WalkOnListed
<1>1. IInv => WalkOnListed
  <2> SUFFICES ASSUME IInv
               PROVE  WalkOnListed
    OBVIOUS
  <2>1. \A c : c \in Range(list) <=> Listed(c)
    BY ListType DEF IInv
  <2>2. pc = "call" => succ = END \/ Listed(succ)
    BY SuccListed DEF IInv, WalkInv
  <2> QED
    BY <2>1, <2>2 DEF IInv, WalkInv, WalkOnListed
<1> QED
  BY <1>1, Invariance, PTL
=============================================================================
