---------------------------- MODULE FbxLocksProofs ----------------------------
(***************************************************************************)
(* Proofs about FbxLocks, for every set of names, disks, structures and    *)
(* mounts, and about FbxRename, for every table and hash function; and     *)
(* that the rename of the one is the walk of the other.                    *)
(***************************************************************************)
EXTENDS FbxLocks, FbxRename, TLAPS, SequenceTheorems, FiniteSetTheorems

-----------------------------------------------------------------------------
(* Names *)

\* Elements of sequences.
LEMMA PrefixElements ==
  ASSUME NEW s \in Seq(STRING), NEW t \in Seq(STRING)
  PROVE  FbxIsParent(s, t) <=> Len(s) < Len(t) /\ \A i \in 1..Len(s) : s[i] = t[i]
<1>1. SubSeq(s, 1, Len(s)) = s
  BY SubSeqFull
<1>2. ASSUME Len(s) <= Len(t)
      PROVE  /\ SubSeq(t, 1, Len(s)) \in Seq(STRING)
             /\ Len(SubSeq(t, 1, Len(s))) = Len(s)
             /\ \A i \in 1..Len(s) : SubSeq(t, 1, Len(s))[i] = t[i]
  BY <1>2
<1>3. ASSUME FbxIsParent(s, t)
      PROVE  Len(s) < Len(t) /\ \A i \in 1..Len(s) : s[i] = t[i]
  <2>1. Len(s) <= Len(t) /\ s = SubSeq(t, 1, Len(s)) /\ s # t
    BY <1>1, <1>3 DEF FbxIsParent, IsStrictPrefix, IsPrefix
  <2>2. Len(s) # Len(t)
    BY <2>1, SubSeqFull
  <2>3. QED
    BY <1>2, <2>1, <2>2
<1>4. ASSUME Len(s) < Len(t), \A i \in 1..Len(s) : s[i] = t[i]
      PROVE  FbxIsParent(s, t)
  <2>1. s = SubSeq(t, 1, Len(s))
    BY <1>2, <1>4, SeqEqual
  <2>2. QED
    BY <1>1, <1>4, <2>1 DEF FbxIsParent, IsStrictPrefix, IsPrefix
<1>5. QED
  BY <1>3, <1>4

LEMMA RebaseElements ==
  ASSUME NEW p \in Seq(STRING), NEW q \in Seq(STRING), NEW x \in Seq(STRING),
         Len(p) <= Len(x)
  PROVE  /\ Rebase(p, q, x) \in Seq(STRING)
         /\ Len(Rebase(p, q, x)) = Len(q) + Len(x) - Len(p)
         /\ \A i \in 1..Len(q) : Rebase(p, q, x)[i] = q[i]
         /\ \A i \in 1..(Len(x) - Len(p)) : Rebase(p, q, x)[Len(q) + i] = x[Len(p) + i]
BY DEF Rebase

LEMMA ParentOrder ==
  ASSUME NEW p \in Seq(STRING), NEW q \in Seq(STRING), NEW x \in Seq(STRING)
  PROVE  /\ ~FbxIsParent(p, p)
         /\ FbxIsParent(p, q) /\ FbxIsParent(q, x) => FbxIsParent(p, x)
         /\ FbxIsParent(p, x) /\ FbxIsParent(q, x)
              => p = q \/ FbxIsParent(p, q) \/ FbxIsParent(q, p)
<1>1. Len(p) \in Nat /\ Len(q) \in Nat /\ Len(x) \in Nat
  OBVIOUS
<1>2. ~FbxIsParent(p, p)
  BY <1>1, PrefixElements
<1>3. ASSUME FbxIsParent(p, q), FbxIsParent(q, x)
      PROVE  FbxIsParent(p, x)
  BY <1>1, <1>3, PrefixElements
<1>4. ASSUME FbxIsParent(p, x), FbxIsParent(q, x)
      PROVE  p = q \/ FbxIsParent(p, q) \/ FbxIsParent(q, p)
  <2>1. /\ Len(p) < Len(x) /\ \A i \in 1..Len(p) : p[i] = x[i]
        /\ Len(q) < Len(x) /\ \A i \in 1..Len(q) : q[i] = x[i]
    BY <1>4, PrefixElements
  <2>2. CASE Len(p) = Len(q)
    BY <2>1, <2>2, SeqEqual
  <2>3. CASE Len(p) < Len(q)
    BY <1>1, <2>1, <2>3, PrefixElements
  <2>4. CASE Len(q) < Len(p)
    BY <1>1, <2>1, <2>4, PrefixElements
  <2>5. QED
    BY <1>1, <2>2, <2>3, <2>4
<1>5. QED
  BY <1>2, <1>3, <1>4

\* Every directory above a name is a name.
LEMMA ParentInPath ==
  ASSUME NEW x \in Path, NEW z \in Seq(STRING), FbxIsParent(z, x)
  PROVE  z \in Path
<1>1. x \in Seq(STRING) /\ Len(z) \in 0..Len(x)
  BY PathAssumption, PrefixElements
<1>2. z = SubSeq(x, 1, Len(z))
  BY <1>1, SubSeqFull DEF FbxIsParent, IsStrictPrefix, IsPrefix
<1>3. QED
  BY <1>1, <1>2, PathAssumption

\* The nearest directory above a name.
LEMMA FrontIsParent ==
  ASSUME NEW p \in Path, p # Root
  PROVE  /\ Front(p) \in Path
         /\ FbxIsParent(Front(p), p)
         /\ \A z \in Path : FbxIsParent(z, p) => z = Front(p) \/ FbxIsParent(z, Front(p))
<1>1. p \in Seq(STRING) /\ Len(p) \in Nat /\ Len(p) > 0
  BY PathAssumption DEF Root
<1>2. /\ Front(p) \in Seq(STRING) /\ Len(Front(p)) = Len(p) - 1
      /\ \A i \in 1..(Len(p) - 1) : Front(p)[i] = p[i]
  <2> DEFINE k == Len(p) - 1
  <2>0. k \in Int /\ k >= 0 /\ \A i \in 1..k : p[i] \in STRING
    BY <1>1
  <2> HIDE DEF k
  <2>1. SubSeq(p, 1, k) \in Seq(STRING) /\ Len(SubSeq(p, 1, k)) = k
    BY <2>0
  <2>2. \A i \in 1..(Len(p) - 1) : SubSeq(p, 1, Len(p) - 1)[i] = p[i]
    BY <1>1
  <2>3. QED
    BY <2>1, <2>2 DEF Front, k
<1>3. FbxIsParent(Front(p), p)
  BY <1>1, <1>2, PrefixElements
<1>4. ASSUME NEW z \in Path, FbxIsParent(z, p)
      PROVE  z = Front(p) \/ FbxIsParent(z, Front(p))
  <2>1. z \in Seq(STRING) /\ Len(z) \in Nat
    BY PathAssumption
  <2>2. Len(z) < Len(p) /\ \A i \in 1..Len(z) : z[i] = p[i]
    BY <1>1, <1>4, <2>1, PrefixElements
  <2>3. CASE Len(z) = Len(p) - 1
    BY <1>2, <2>1, <2>2, <2>3, SeqEqual
  <2>4. CASE Len(z) < Len(p) - 1
    BY <1>1, <1>2, <2>1, <2>2, <2>4, PrefixElements
  <2>5. QED
    BY <1>1, <2>1, <2>2, <2>3, <2>4
<1>5. QED
  BY <1>2, <1>3, <1>4, ParentInPath

\* A rename and the rename back.
LEMMA RebaseMoves ==
  ASSUME NEW p \in Seq(STRING), NEW q \in Seq(STRING), NEW x \in Seq(STRING),
         x = p \/ FbxIsParent(p, x)
  PROVE  /\ Rebase(p, q, x) \in Seq(STRING)
         /\ Rebase(q, p, Rebase(p, q, x)) = x
         /\ x = p => Rebase(p, q, x) = q
         /\ p = q => Rebase(p, q, x) = x
         /\ FbxIsParent(p, x) => FbxIsParent(q, Rebase(p, q, x))
<1> DEFINE y == Rebase(p, q, x)
           z == Rebase(q, p, y)
<1>1. /\ Len(p) \in Nat /\ Len(q) \in Nat /\ Len(x) \in Nat /\ Len(p) <= Len(x)
      /\ \A i \in 1..Len(p) : p[i] = x[i]
  BY PrefixElements
<1>2. /\ y \in Seq(STRING) /\ Len(y) = Len(q) + Len(x) - Len(p)
      /\ \A i \in 1..Len(q) : y[i] = q[i]
      /\ \A i \in 1..(Len(x) - Len(p)) : y[Len(q) + i] = x[Len(p) + i]
  BY <1>1, RebaseElements
<1> HIDE DEF y
<1>3. /\ z \in Seq(STRING) /\ Len(z) = Len(p) + Len(y) - Len(q)
      /\ \A i \in 1..Len(p) : z[i] = p[i]
      /\ \A i \in 1..(Len(y) - Len(q)) : z[Len(p) + i] = y[Len(q) + i]
  <2>1. y \in Seq(STRING) /\ Len(q) <= Len(y)
    BY <1>1, <1>2
  <2>2. QED
    BY ONLY <2>1, p \in Seq(STRING), q \in Seq(STRING), RebaseElements DEF z
<1> HIDE DEF z
<1>4. \A i \in 1..Len(x) : z[i] = x[i]
  <2> SUFFICES ASSUME NEW i \in 1..Len(x)
               PROVE  z[i] = x[i]
    OBVIOUS
  <2>1. CASE i <= Len(p)
    BY <1>1, <1>3, <2>1
  <2>2. CASE i > Len(p)
    <3> DEFINE j == i - Len(p)
    <3>1. j \in 1..(Len(x) - Len(p)) /\ Len(p) + j = i /\ j \in 1..(Len(y) - Len(q))
      BY <1>1, <1>2, <2>2
    <3>2. z[Len(p) + j] = y[Len(q) + j] /\ y[Len(q) + j] = x[Len(p) + j]
      BY <1>2, <1>3, <3>1
    <3>3. QED
      BY <3>1, <3>2
  <2>3. QED
    BY <1>1, <2>1, <2>2
<1>5. z = x
  BY <1>1, <1>2, <1>3, <1>4, SeqEqual
<1>6. x = p => y = q
  BY <1>1, <1>2, SeqEqual
<1>7. FbxIsParent(p, x) => FbxIsParent(q, y)
  BY <1>1, <1>2, PrefixElements
<1>8. ASSUME p = q
      PROVE  y = x
  <2>1. \A i \in 1..Len(x) : y[i] = x[i]
    <3> SUFFICES ASSUME NEW i \in 1..Len(x)
                 PROVE  y[i] = x[i]
      OBVIOUS
    <3>1. CASE i <= Len(p)
      BY <1>1, <1>2, <1>8, <3>1
    <3>2. CASE i > Len(p)
      <4>1. i - Len(p) \in 1..(Len(x) - Len(p)) /\ Len(p) + (i - Len(p)) = i
        BY <1>1, <3>2
      <4>2. QED
        BY <1>2, <1>8, <4>1
    <3>3. QED
      BY <1>1, <3>1, <3>2
  <2>2. Len(y) = Len(x)
    BY <1>1, <1>2, <1>8
  <2>3. QED
    BY <1>2, <2>1, <2>2, SeqEqual
<1>9. QED
  BY <1>2, <1>5, <1>6, <1>7, <1>8 DEF y, z

LEMMA RebaseKeepsOrder ==
  ASSUME NEW p \in Seq(STRING), NEW q \in Seq(STRING), NEW x \in Seq(STRING),
         NEW z \in Seq(STRING), FbxIsParent(q, z), FbxIsParent(z, x)
  PROVE  FbxIsParent(Rebase(q, p, z), Rebase(q, p, x))
<1> DEFINE rz == Rebase(q, p, z)
           rx == Rebase(q, p, x)
<1>1. /\ Len(p) \in Nat /\ Len(q) \in Nat /\ Len(x) \in Nat /\ Len(z) \in Nat
      /\ Len(q) < Len(z) /\ Len(z) < Len(x)
      /\ \A i \in 1..Len(z) : z[i] = x[i]
  BY PrefixElements
<1>2. /\ rz \in Seq(STRING) /\ Len(rz) = Len(p) + Len(z) - Len(q)
      /\ \A i \in 1..Len(p) : rz[i] = p[i]
      /\ \A i \in 1..(Len(z) - Len(q)) : rz[Len(p) + i] = z[Len(q) + i]
  <2>1. Len(q) <= Len(z)
    BY <1>1
  <2>2. QED
    BY ONLY <2>1, p \in Seq(STRING), q \in Seq(STRING), z \in Seq(STRING), RebaseElements
<1>3. /\ rx \in Seq(STRING) /\ Len(rx) = Len(p) + Len(x) - Len(q)
      /\ \A i \in 1..Len(p) : rx[i] = p[i]
      /\ \A i \in 1..(Len(x) - Len(q)) : rx[Len(p) + i] = x[Len(q) + i]
  <2>1. Len(q) <= Len(x)
    BY <1>1
  <2>2. QED
    BY ONLY <2>1, p \in Seq(STRING), q \in Seq(STRING), x \in Seq(STRING), RebaseElements
<1> HIDE DEF rz, rx
<1>4. \A i \in 1..Len(rz) : rz[i] = rx[i]
  <2> SUFFICES ASSUME NEW i \in 1..Len(rz)
               PROVE  rz[i] = rx[i]
    OBVIOUS
  <2>1. CASE i <= Len(p)
    BY <1>1, <1>2, <1>3, <2>1
  <2>2. CASE i > Len(p)
    <3> DEFINE j == i - Len(p)
    <3>1. /\ j \in 1..(Len(z) - Len(q)) /\ j \in 1..(Len(x) - Len(q))
          /\ Len(p) + j = i /\ Len(q) + j \in 1..Len(z)
      BY <1>1, <1>2, <2>2
    <3>2. /\ rz[Len(p) + j] = z[Len(q) + j] /\ rx[Len(p) + j] = x[Len(q) + j]
          /\ z[Len(q) + j] = x[Len(q) + j]
      BY <1>1, <1>2, <1>3, <3>1
    <3>3. QED
      BY <3>1, <3>2
  <2>3. QED
    BY <1>1, <1>2, <2>1, <2>2
<1>5. Len(rz) < Len(rx)
  BY <1>1, <1>2, <1>3
<1>6. FbxIsParent(rz, rx)
  BY <1>2, <1>3, <1>4, <1>5, PrefixElements
<1>7. QED
  BY <1>6 DEF rz, rx

-----------------------------------------------------------------------------
(* What the helpers return *)

LEMMA NullOutside ==
  /\ NULL \notin Entry /\ NULL \notin Lock /\ NULL \notin Request
  /\ NULL \notin Volume /\ NULL \notin Inode
BY NullAssumption

LEMMA NoRecordTypes ==
  NoEntry \in EntryRecord /\ NoLock \in LockRecord /\ NoNotify \in NotifyRecord
BY PathAssumption DEF NoEntry, EntryRecord, NoLock, LockRecord, NoNotify,
   NotifyRecord, Access, SHARED_LOCK, Root

\* The entry found for an existing object, or set up for it, is an entry.
LEMMA LookedType ==
  ASSUME TypeOK, NEW e \in Entry, NEW p \in Path, currvol \in Volume,
         NEW type \in {"file", "dir"}, NEW ino \in Inode \cup {NULL}
  PROVE  /\ FbxSetupEntry(p, type, ino) \in EntryRecord
         /\ Looked(e, p, type, ino) \in EntryRecord
BY DEF Looked, FbxSetupEntry, EntryRecord, TypeOK

LEMMA LockedType ==
  ASSUME NEW rec \in EntryRecord, NEW mode
  PROVE  Locked(rec, mode) \in EntryRecord
BY DEF Locked, EntryRecord

LEMMA CleanupType ==
  ASSUME NEW entries \in [Entry -> EntryRecord], NEW locks, NEW notifies,
         NEW e \in Entry
  PROVE  FbxCleanupEntry(entries, locks, notifies, e) \in [Entry -> EntryRecord]
BY NoRecordTypes DEF FbxCleanupEntry

LEMMA ResolveType ==
  ASSUME NEW notifies \in [Request -> NotifyRecord], NEW e \in Entry, NEW p
  PROVE  FbxTryResolveNotify(notifies, e, p) \in [Request -> NotifyRecord]
BY DEF FbxTryResolveNotify, NotifyRecord

LEMMA UnResolveType ==
  ASSUME TypeOK, NEW e \in Entry
  PROVE  FbxUnResolveNotifys(e) \in [Request -> NotifyRecord]
BY DEF FbxUnResolveNotifys, NotifyRecord, TypeOK

\* FbxLockEntry and its two ways to fail keep the tables well typed.
LEMMA LockEntryType ==
  ASSUME TypeOK, currvol \in Volume, NEW l \in Lock, NEW e \in Entry,
         NEW rec \in EntryRecord, NEW mode \in Access, NEW opened \in BOOLEAN,
         \/ FbxLockEntry(l, e, rec, mode, opened)
         \/ LockEntryFails(e, rec)
         \/ OpenLockFails(e, rec, mode)
  PROVE  entry' \in [Entry -> EntryRecord] /\ lock' \in [Lock -> LockRecord]
<1>1. entry \in [Entry -> EntryRecord] /\ lock \in [Lock -> LockRecord]
  BY DEF TypeOK
<1>2. Locked(rec, mode) \in EntryRecord
  BY LockedType
<1>3. CASE FbxLockEntry(l, e, rec, mode, opened)
  <2>1. NewLock(e, rec, mode, opened) \in LockRecord
    BY DEF NewLock, LockMode, LockRecord, Access, SHARED_LOCK
  <2>2. QED
    BY <1>1, <1>2, <1>3, <2>1 DEF FbxLockEntry
<1>4. CASE LockEntryFails(e, rec)
  BY <1>1, <1>4, CleanupType DEF LockEntryFails
<1>5. CASE OpenLockFails(e, rec, mode)
  BY <1>1, <1>2, <1>5, CleanupType DEF OpenLockFails, LockEntryFails
<1>6. QED
  BY <1>3, <1>4, <1>5

-----------------------------------------------------------------------------
(* Type correctness *)

LEMMA TreeType ==
  ASSUME TypeOK, NEW p \in Path
  PROVE  /\ tree[p].type \in {"none", "file", "dir"}
         /\ tree[p].ino \in Inode \cup {NULL}
         /\ Exists(p) => tree[p].type \in {"file", "dir"}
BY DEF TypeOK, Tree, Node, Exists

LEMMA NodeTypes ==
  /\ NoNode \in Node
  /\ \A ino \in Inode : [type |-> "dir", ino |-> ino] \in Node
  /\ \A ino \in Inode : [type |-> "file", ino |-> ino] \in Node
BY DEF NoNode, Node

LEMMA InitType == Init => TypeOK
BY NoRecordTypes, DiskAssumption DEF Init, TypeOK

LEMMA InitShape == Init => Shape /\ XlockSole /\ NoDangling /\ OpenOnCurrent
BY NullOutside DEF Init, Shape, XlockSole, NoDangling, OpenOnCurrent, NoLock,
   NoNotify, NoEntry, SHARED_LOCK, EXCLUSIVE_LOCK

-----------------------------------------------------------------------------
(* Packets that make locks *)

\* What a handler may hand to FbxLockEntry: a block not in use, set up for the
\* current volume, or an entry of the current volume as it is.
Lockable(e, rec) ==
  /\ rec \in EntryRecord /\ rec.vol = currvol
  /\ \/ entry[e] = rec
     \/ entry[e].vol = NULL /\ ~rec.xlock

\* Requests of the current volume may have moved to the notify list of e.
NotifyMovedTo(e) ==
  /\ notify' \in [Request -> NotifyRecord]
  /\ \A n \in Request :
       /\ notify'[n].vol = notify[n].vol
       /\ \/ notify'[n] = notify[n]
          \/ notify[n].vol = currvol /\ notify'[n].entry = e

LEMMA LookedLockable ==
  ASSUME IInv, currvol \in Volume, NEW e \in Entry, NEW p \in Path,
         EntryFor(e, p),
         NEW type \in {"file", "dir"}, NEW ino \in Inode \cup {NULL}
  PROVE  Lockable(e, Looked(e, p, type, ino))
<1>1. Looked(e, p, type, ino) \in EntryRecord
  BY LookedType DEF IInv
<1>2. CASE FbxFindEntry(p) = {}
  BY <1>1, <1>2 DEF Lockable, Looked, FbxSetupEntry, EntryFor
<1>3. CASE FbxFindEntry(p) # {}
  BY <1>1, <1>3 DEF Lockable, Looked, EntryFor, FbxFindEntry
<1>4. QED
  BY <1>2, <1>3

\* A structure not in use is on no list.
LEMMA FreeUnused ==
  ASSUME IInv, NEW e \in Entry, entry[e].vol = NULL
  PROVE  /\ \A l \in Lock : lock[l].entry # e
         /\ \A n \in Request : notify[n].entry # e
BY NullOutside DEF IInv, NoDangling

\* FbxLockEntry grants a lock.
LEMMA GrantSafe ==
  ASSUME IInv, currvol \in Volume, NEW l \in Lock, NEW e \in Entry, NEW rec,
         Lockable(e, rec), NEW mode \in Access, NEW opened \in BOOLEAN,
         FbxLockEntry(l, e, rec, mode, opened),
         NotifyMovedTo(e), UNCHANGED volumes
  PROVE  /\ entry' \in [Entry -> EntryRecord] /\ lock' \in [Lock -> LockRecord]
         /\ Shape' /\ XlockSole' /\ NoDangling' /\ OpenOnCurrent'
<1> DEFINE new == NewLock(e, rec, mode, opened)
<1>1. /\ entry \in [Entry -> EntryRecord] /\ lock \in [Lock -> LockRecord]
      /\ notify \in [Request -> NotifyRecord]
  BY DEF IInv, TypeOK
<1>2. /\ new \in LockRecord /\ new.entry = e /\ new.fsvol = currvol
      /\ new.access = LockMode(rec, mode) /\ new.info = opened /\ new.fh = opened
  BY DEF NewLock, LockMode, LockRecord, Access, SHARED_LOCK, Lockable
<1>3. /\ Locked(rec, mode) \in EntryRecord
      /\ Locked(rec, mode).vol = currvol
      /\ Locked(rec, mode).xlock <=> LockMode(rec, mode) = EXCLUSIVE_LOCK
  BY DEF Locked, EntryRecord, Lockable, FbxLockEntry, CanLock
<1>4. /\ lock' = [lock EXCEPT ![l] = new] /\ lock[l] = NoLock
      /\ entry' = [entry EXCEPT ![e] = Locked(rec, mode)]
  BY DEF FbxLockEntry
<1>5. entry' \in [Entry -> EntryRecord] /\ lock' \in [Lock -> LockRecord]
  BY <1>1, <1>2, <1>3, <1>4
<1>6. Shape'
  BY <1>1, <1>2, <1>3, <1>4, NullOutside
  DEF IInv, Shape, volumes, NotifyMovedTo
<1>7. XlockSole'
  <2>1. \A k \in Lock : k # l => lock'[k] = lock[k]
    BY <1>1, <1>4
  <2>2. lock'[l] = new /\ entry'[e] = Locked(rec, mode)
    BY <1>1, <1>4
  <2>3. \A x \in Entry : x # e => entry'[x] = entry[x]
    BY <1>1, <1>4
  <2>4. LockMode(rec, mode) = EXCLUSIVE_LOCK => \A k \in Lock : lock[k].entry # e
    BY DEF FbxLockEntry, CanLock, LockList
  <2>5. \A k \in Lock : lock[k].entry = e => lock[k].access # EXCLUSIVE_LOCK
    BY FreeUnused, NullOutside DEF IInv, XlockSole, FbxLockEntry, CanLock, Lockable
  <2>6. \A k \in Lock : lock[k].entry \in Entry \cup {NULL}
    BY <1>1 DEF LockRecord
  <2>7. QED
    BY <1>2, <1>3, <2>1, <2>2, <2>3, <2>4, <2>5, <2>6, NullOutside DEF IInv, XlockSole
<1>8. NoDangling'
  BY <1>1, <1>2, <1>3, <1>4, NullOutside, FreeUnused
  DEF IInv, NoDangling, volumes, NotifyMovedTo, Lockable
<1>9. OpenOnCurrent'
  BY <1>1, <1>2, <1>4, NullOutside DEF IInv, OpenOnCurrent, OnCurrent, OkVolume, volumes
<1>10. QED
  BY <1>5, <1>6, <1>7, <1>8, <1>9

\* The same packet when it gets no lock: the entry is put back, or freed.
LEMMA CleanupSafe ==
  ASSUME IInv, currvol \in Volume, NEW e \in Entry, NEW rec,
         rec \in EntryRecord, rec.vol = currvol,
         \/ entry[e].vol = currvol
         \/ entry[e].vol = NULL,
         \/ rec.xlock = entry[e].xlock
         \/ \A l \in Lock : lock[l].entry # e,
         NotifyMovedTo(e), UNCHANGED volumes, UNCHANGED lock,
         entry' = FbxCleanupEntry([entry EXCEPT ![e] = rec], lock, notify', e)
  PROVE  /\ entry' \in [Entry -> EntryRecord]
         /\ Shape' /\ XlockSole' /\ NoDangling' /\ OpenOnCurrent'
<1>1. /\ entry \in [Entry -> EntryRecord] /\ lock \in [Lock -> LockRecord]
      /\ notify \in [Request -> NotifyRecord]
  BY DEF IInv, TypeOK
<1>2. /\ \A x \in Entry : x # e => entry'[x] = entry[x]
      /\ \/ entry'[e] = rec
         \/ /\ entry'[e] = NoEntry
            /\ \A l \in Lock : lock[l].entry # e
            /\ \A n \in Request : notify'[n].entry # e
  BY <1>1 DEF FbxCleanupEntry
<1>3. entry' \in [Entry -> EntryRecord]
  BY <1>1, CleanupType
<1>4. Shape'
  BY <1>1, <1>2, NullOutside DEF IInv, Shape, volumes, NotifyMovedTo
<1>5. XlockSole'
  <2>1. \A l \in Lock : lock[l].entry # NULL => lock[l].entry \in Entry
    BY <1>1 DEF LockRecord
  <2>2. \A l \in Lock : lock[l].entry # NULL =>
          entry'[lock[l].entry].xlock = entry[lock[l].entry].xlock
    BY <1>2, <2>1
  <2>3. QED
    BY <2>2 DEF IInv, XlockSole
<1>6. NoDangling'
  <2>1. \A l \in Lock : lock[l].entry # NULL =>
          entry'[lock[l].entry].vol = lock[l].fsvol
    BY <1>1, <1>2, FreeUnused, NullOutside DEF IInv, NoDangling, LockRecord
  <2>2. \A n \in Request : notify'[n].entry # NULL =>
          notify'[n].vol # NULL /\ entry'[notify'[n].entry].vol = notify'[n].vol
    <3> SUFFICES ASSUME NEW n \in Request, notify'[n].entry # NULL
                 PROVE  /\ notify'[n].vol # NULL
                        /\ entry'[notify'[n].entry].vol = notify'[n].vol
      OBVIOUS
    <3>1. notify'[n].entry \in Entry
      BY DEF NotifyMovedTo, NotifyRecord
    <3>2. CASE notify'[n].entry = e
      <4>1. notify'[n].vol = currvol
        BY <1>1, <3>2, FreeUnused, NullOutside DEF IInv, NoDangling, NotifyMovedTo
      <4>2. QED
        BY <1>2, <3>2, <4>1, NullOutside
    <3>3. CASE notify'[n].entry # e
      <4>1. notify'[n] = notify[n]
        BY <3>3 DEF NotifyMovedTo
      <4>2. entry'[notify[n].entry] = entry[notify[n].entry]
        BY <1>2, <3>1, <3>3, <4>1
      <4>3. QED
        BY <4>1, <4>2 DEF IInv, NoDangling
    <3>4. QED
      BY <3>2, <3>3
  <2>3. QED
    BY <2>1, <2>2 DEF IInv, NoDangling, volumes
<1>7. OpenOnCurrent'
  BY DEF IInv, OpenOnCurrent, OnCurrent, OkVolume, volumes
<1>8. QED
  BY <1>3, <1>4, <1>5, <1>6, <1>7

\* FbxLockEntry on e, with all the ways in which it can fail.
LEMMA LockEntrySafe ==
  ASSUME IInv, currvol \in Volume, NEW l \in Lock, NEW e \in Entry, NEW rec,
         Lockable(e, rec), NEW mode \in Access, NEW opened \in BOOLEAN,
         \/ FbxLockEntry(l, e, rec, mode, opened) /\ NotifyMovedTo(e)
         \/ LockEntryFails(e, rec) /\ UNCHANGED notify
         \/ OpenLockFails(e, rec, mode) /\ UNCHANGED notify,
         UNCHANGED volumes
  PROVE  /\ entry' \in [Entry -> EntryRecord] /\ lock' \in [Lock -> LockRecord]
         /\ notify' \in [Request -> NotifyRecord]
         /\ Shape' /\ XlockSole' /\ NoDangling' /\ OpenOnCurrent'
<1>1. CASE FbxLockEntry(l, e, rec, mode, opened) /\ NotifyMovedTo(e)
  BY <1>1, GrantSafe DEF NotifyMovedTo
<1>2. ASSUME UNCHANGED notify
      PROVE  NotifyMovedTo(e)
  BY <1>2 DEF NotifyMovedTo, IInv, TypeOK
<1>3. /\ rec \in EntryRecord /\ rec.vol = currvol
      /\ entry[e].vol = currvol \/ entry[e].vol = NULL
      /\ rec.xlock = entry[e].xlock \/ \A k \in Lock : lock[k].entry # e
  BY FreeUnused DEF Lockable
<1>4. CASE LockEntryFails(e, rec) /\ UNCHANGED notify
  <2>1. UNCHANGED lock /\ NotifyMovedTo(e) /\ lock' \in [Lock -> LockRecord]
    BY <1>2, <1>4 DEF LockEntryFails, IInv, TypeOK
  <2>2. entry' = FbxCleanupEntry([entry EXCEPT ![e] = rec], lock, notify', e)
    BY <1>4 DEF LockEntryFails
  <2>3. QED
    BY <1>3, <2>1, <2>2, CleanupSafe DEF NotifyMovedTo
<1>5. CASE OpenLockFails(e, rec, mode) /\ UNCHANGED notify
  <2> DEFINE r2 == Locked(rec, mode)
  <2>1. UNCHANGED lock /\ NotifyMovedTo(e) /\ lock' \in [Lock -> LockRecord]
    BY <1>2, <1>5 DEF OpenLockFails, LockEntryFails, IInv, TypeOK
  <2>2. entry' = FbxCleanupEntry([entry EXCEPT ![e] = r2], lock, notify', e)
    BY <1>5 DEF OpenLockFails, LockEntryFails
  <2>3. r2 \in EntryRecord /\ r2.vol = currvol
    BY <1>3, LockedType DEF Locked, EntryRecord
  <2>4. r2.xlock = entry[e].xlock \/ \A k \in Lock : lock[k].entry # e
    <3>1. CASE LockMode(rec, mode) = EXCLUSIVE_LOCK
      BY <1>5, <3>1 DEF OpenLockFails, CanLock, LockList
    <3>2. CASE LockMode(rec, mode) # EXCLUSIVE_LOCK
      <4>1. r2.xlock = rec.xlock
        BY <1>3, <3>2 DEF Locked, EntryRecord
      <4>2. QED
        BY <1>3, <4>1
    <3>3. QED
      BY <3>1, <3>2
  <2>5. QED
    BY <1>3, <2>1, <2>2, <2>3, <2>4, CleanupSafe DEF NotifyMovedTo
<1>6. QED
  BY <1>1, <1>4, <1>5

LEMMA ResolveMoves ==
  ASSUME IInv, currvol \in Volume, NEW e \in Entry, NEW p,
         notify' = FbxTryResolveNotify(notify, e, p)
  PROVE  NotifyMovedTo(e)
BY ResolveType DEF NotifyMovedTo, FbxTryResolveNotify, IInv, TypeOK, NotifyRecord

LEMMA NotifyStays ==
  ASSUME IInv, NEW e \in Entry, UNCHANGED notify
  PROVE  NotifyMovedTo(e)
BY DEF NotifyMovedTo, IInv, TypeOK

LEMMA LocateSafe ==
  ASSUME IInv, NEW p \in Path, NEW mode \in Access, NEW l \in Lock,
         NEW e \in Entry, FbxLocateObject(p, mode, l, e)
  PROVE  IInv'
<1> DEFINE rec == Looked(e, p, tree[p].type, tree[p].ino)
<1>1. currvol \in Volume /\ EntryFor(e, p) /\ UNCHANGED <<volumes, backend, notify>>
  BY DEF FbxLocateObject, OkVolume, IInv, TypeOK
<1>2. Lockable(e, rec)
  BY <1>1, LookedLockable, TreeType DEF FbxLocateObject, IInv
<1>3. FbxLockEntry(l, e, rec, mode, FALSE) \/ LockEntryFails(e, rec)
  BY DEF FbxLocateObject
<1>4. /\ entry' \in [Entry -> EntryRecord] /\ lock' \in [Lock -> LockRecord]
      /\ notify' \in [Request -> NotifyRecord]
      /\ Shape' /\ XlockSole' /\ NoDangling' /\ OpenOnCurrent'
  BY <1>1, <1>2, <1>3, LockEntrySafe, NotifyStays
<1>5. QED
  BY <1>1, <1>4 DEF IInv, TypeOK, backend, volumes

\* What CHECKLOCK and the comparison of volumes establish.
LEMMA OnCurrentEntry ==
  ASSUME IInv, NEW l \in Lock, OnCurrent(l)
  PROVE  /\ currvol \in Volume
         /\ lock[l].entry \in Entry /\ entry[lock[l].entry].vol = currvol
<1>1. lock[l].fsvol = currvol /\ currvol # NULL
  BY DEF OnCurrent, OkVolume
<1>2. lock[l] # NoLock
  BY <1>1 DEF NoLock
<1>3. QED
  BY <1>1, <1>2 DEF IInv, Shape, NoDangling, TypeOK, LockRecord

LEMMA DupSafe ==
  ASSUME IInv, NEW l \in Lock, NEW new \in Lock, FbxDupLock(l, new)
  PROVE  IInv'
<1> DEFINE e == lock[l].entry
<1>1. UNCHANGED <<volumes, backend, notify>> /\ OnCurrent(l)
  BY DEF FbxDupLock
<1>2. currvol \in Volume /\ e \in Entry /\ entry[e].vol = currvol
  BY <1>1, OnCurrentEntry
<1>3. Lockable(e, entry[e])
  BY <1>2 DEF Lockable, IInv, TypeOK
<1>4. FbxLockEntry(new, e, entry[e], SHARED_LOCK, FALSE)
  BY DEF FbxDupLock
<1>5. /\ entry' \in [Entry -> EntryRecord] /\ lock' \in [Lock -> LockRecord]
      /\ notify' \in [Request -> NotifyRecord]
      /\ Shape' /\ XlockSole' /\ NoDangling' /\ OpenOnCurrent'
  BY <1>1, <1>2, <1>3, <1>4, LockEntrySafe, NotifyStays DEF Access
<1>6. QED
  BY <1>1, <1>5 DEF IInv, TypeOK, backend, volumes

LEMMA LocateParentSafe ==
  ASSUME IInv, NEW l \in Lock, NEW new \in Lock, NEW e \in Entry,
         FbxLocateParent(l, new, e)
  PROVE  IInv'
<1> DEFINE p == entry[lock[l].entry].path
<1>1. lock[l].entry \in Entry
  BY OnCurrentEntry DEF FbxLocateParent
<1>2. p \in Path /\ p # Root
  BY <1>1 DEF FbxLocateParent, IInv, TypeOK, EntryRecord
<1>3. Front(p) \in Path
  BY <1>2, FrontIsParent
<1>4. FbxLocateObject(Front(p), SHARED_LOCK, new, e)
  BY DEF FbxLocateParent
<1>5. QED
  BY <1>3, <1>4, LocateSafe DEF Access

\* A step that leaves the entry, lock and notify tables alone.
LEMMA TablesStay ==
  ASSUME IInv, UNCHANGED <<volumes, entry, lock, notify>>
  PROVE  /\ entry' \in [Entry -> EntryRecord] /\ lock' \in [Lock -> LockRecord]
         /\ notify' \in [Request -> NotifyRecord]
         /\ Shape' /\ XlockSole' /\ NoDangling' /\ OpenOnCurrent'
BY DEF IInv, TypeOK, volumes, Shape, XlockSole, NoDangling, OpenOnCurrent,
   OnCurrent, OkVolume

LEMMA CreateDirSafe ==
  ASSUME IInv, NEW p \in Path, NEW ino \in Inode, NEW l \in Lock,
         NEW e \in Entry, FbxCreateDir(p, ino, l, e)
  PROVE  IInv'
<1> DEFINE rec == FbxSetupEntry(p, "dir", ino)
           Tables == /\ entry' \in [Entry -> EntryRecord]
                     /\ lock' \in [Lock -> LockRecord]
                     /\ notify' \in [Request -> NotifyRecord]
                     /\ Shape' /\ XlockSole' /\ NoDangling' /\ OpenOnCurrent'
<1>1. /\ currvol \in Volume /\ UNCHANGED <<readonly, writeprotect, volumes>>
      /\ tree' = [tree EXCEPT ![p] = [type |-> "dir", ino |-> ino]]
      /\ FbxFindEntry(p) = {}
  BY DEF FbxCreateDir, OkVolume, IInv, TypeOK
<1>2. tree' \in Tree
  BY <1>1, NodeTypes DEF IInv, TypeOK, Tree
<1>3. Tables
  <2>1. CASE UNCHANGED <<entry, lock, notify>>
    BY <1>1, <2>1, TablesStay
  <2>2. CASE /\ EntryFor(e, p)
             /\ notify' = FbxTryResolveNotify(notify, e, p)
             /\ FbxLockEntry(l, e, rec, SHARED_LOCK, FALSE)
    <3>1. Lockable(e, rec)
      BY <1>1, <2>2, LookedLockable DEF Looked
    <3>2. NotifyMovedTo(e)
      BY <1>1, <2>2, ResolveMoves
    <3>3. QED
      BY <1>1, <2>2, <3>1, <3>2, LockEntrySafe DEF Access
  <2>3. CASE /\ EntryFor(e, p)
             /\ notify' = FbxTryResolveNotify(notify, e, p)
             /\ entry' = FbxCleanupEntry([entry EXCEPT ![e] = rec],
                                         lock, notify', e)
             /\ UNCHANGED lock
    <3>1. entry[e].vol = NULL
      BY <1>1, <2>3 DEF EntryFor
    <3>2. rec \in EntryRecord /\ rec.vol = currvol
      BY <1>1, LookedType DEF IInv, FbxSetupEntry
    <3>3. NotifyMovedTo(e)
      BY <1>1, <2>3, ResolveMoves
    <3>4. \A k \in Lock : lock[k].entry # e
      BY <3>1, FreeUnused
    <3>5. lock' \in [Lock -> LockRecord] /\ notify' \in [Request -> NotifyRecord]
      BY <2>3, <3>3 DEF IInv, TypeOK, NotifyMovedTo
    <3>6. QED
      BY <1>1, <2>3, <3>1, <3>2, <3>3, <3>4, <3>5, CleanupSafe
  <2>4. QED
    BY <2>1, <2>2, <2>3 DEF FbxCreateDir
<1>4. QED
  BY <1>1, <1>2, <1>3 DEF IInv, TypeOK, volumes

-----------------------------------------------------------------------------
(* Packets that open and close files *)

LEMMA OpenExistingSafe ==
  ASSUME IInv, NEW p \in Path, NEW mode \in OpenMode, NEW l \in Lock,
         NEW e \in Entry, OpenExisting(p, mode, l, e)
  PROVE  IInv'
<1> DEFINE rec == Looked(e, p, "file", tree[p].ino)
           lm  == OpenLockMode(mode)
<1>1. /\ currvol \in Volume /\ EntryFor(e, p) /\ UNCHANGED <<backend, volumes>>
  BY DEF OpenExisting, OkVolume, IInv, TypeOK
<1>2. Lockable(e, rec) /\ lm \in Access
  BY <1>1, LookedLockable, TreeType DEF IInv, OpenLockMode, Access
<1>3. \/ /\ FbxLockEntry(l, e, rec, lm, TRUE)
         /\ \/ notify' = FbxTryResolveNotify(notify, e, p)
            \/ UNCHANGED notify
      \/ LockEntryFails(e, rec) /\ UNCHANGED notify
      \/ OpenLockFails(e, rec, lm) /\ UNCHANGED notify
  BY DEF OpenExisting
<1>4. \/ FbxLockEntry(l, e, rec, lm, TRUE) /\ NotifyMovedTo(e)
      \/ LockEntryFails(e, rec) /\ UNCHANGED notify
      \/ OpenLockFails(e, rec, lm) /\ UNCHANGED notify
  BY <1>1, <1>3, ResolveMoves, NotifyStays
<1>5. /\ entry' \in [Entry -> EntryRecord] /\ lock' \in [Lock -> LockRecord]
      /\ notify' \in [Request -> NotifyRecord]
      /\ Shape' /\ XlockSole' /\ NoDangling' /\ OpenOnCurrent'
  BY <1>1, <1>2, <1>4, LockEntrySafe
<1>6. QED
  BY <1>1, <1>5 DEF IInv, TypeOK, backend, volumes

LEMMA OpenCreateSafe ==
  ASSUME IInv, NEW p \in Path, NEW mode \in OpenMode, NEW ino \in Inode,
         NEW l \in Lock, NEW e \in Entry, OpenCreate(p, mode, ino, l, e)
  PROVE  IInv'
<1> DEFINE key == IF HasMknod THEN ino ELSE NULL
           rec == FbxSetupEntry(p, "file", key)
           lm  == OpenLockMode(mode)
<1>1. /\ currvol \in Volume /\ UNCHANGED <<readonly, writeprotect, volumes>>
      /\ tree' = [tree EXCEPT ![p] = [type |-> "file", ino |-> ino]]
      /\ FbxFindEntry(p) = {}
  BY DEF OpenCreate, OkVolume, IInv, TypeOK
<1>2. tree' \in Tree
  BY <1>1, NodeTypes DEF IInv, TypeOK, Tree
<1>3. /\ entry' \in [Entry -> EntryRecord] /\ lock' \in [Lock -> LockRecord]
      /\ notify' \in [Request -> NotifyRecord]
      /\ Shape' /\ XlockSole' /\ NoDangling' /\ OpenOnCurrent'
  <2>1. CASE UNCHANGED <<entry, lock, notify>>
    BY <1>1, <2>1, TablesStay
  <2>2. CASE /\ EntryFor(e, p)
             /\ notify' = FbxTryResolveNotify(notify, e, p)
             /\ FbxLockEntry(l, e, rec, lm, TRUE)
    <3>1. Lockable(e, rec)
      <4>1. Looked(e, p, "file", key) = rec
        BY <1>1 DEF Looked
      <4>2. key \in Inode \cup {NULL}
        OBVIOUS
      <4>3. QED
        BY <1>1, <2>2, <4>1, <4>2, LookedLockable
    <3>2. NotifyMovedTo(e)
      BY <1>1, <2>2, ResolveMoves
    <3>3. lm \in Access
      BY DEF OpenLockMode, Access
    <3>4. QED
      BY <1>1, <2>2, <3>1, <3>2, <3>3, LockEntrySafe
  <2>3. QED
    BY <2>1, <2>2 DEF OpenCreate
<1>4. QED
  BY <1>1, <1>2, <1>3 DEF IInv, TypeOK, volumes

LEMMA OpenFromLockSafe ==
  ASSUME IInv, NEW l \in Lock, FbxOpenFromLock(l)
  PROVE  IInv'
<1>1. /\ lock \in [Lock -> LockRecord] /\ OnCurrent(l)
      /\ lock' = [lock EXCEPT ![l].info = TRUE, ![l].fh = TRUE]
      /\ UNCHANGED <<backend, volumes, entry, notify>>
  BY DEF FbxOpenFromLock, IInv, TypeOK
<1>2. lock[l].entry \in Entry
  BY <1>1, OnCurrentEntry
<1>3. lock' \in [Lock -> LockRecord]
  BY <1>1 DEF LockRecord
<1>4. /\ \A k \in Lock : /\ lock'[k].entry = lock[k].entry
                         /\ lock'[k].fsvol = lock[k].fsvol
                         /\ lock'[k].access = lock[k].access
      /\ \A k \in Lock : k # l => lock'[k] = lock[k]
      /\ lock'[l].info /\ lock'[l].fh
  BY <1>1 DEF LockRecord
<1>5. Shape' /\ XlockSole' /\ NoDangling'
  BY <1>1, <1>2, <1>4, NullOutside DEF IInv, Shape, XlockSole, NoDangling, volumes
<1>6. OpenOnCurrent'
  BY <1>1, <1>4 DEF IInv, OpenOnCurrent, OnCurrent, OkVolume, volumes
<1>7. QED
  BY <1>1, <1>3, <1>5, <1>6 DEF IInv, TypeOK, backend, volumes

\* FbxEndLock and FbxCleanupEntry free an entry only when it is on no list
\* and a volume only when no lock is left on it.
LEMMA ReleaseSafe ==
  ASSUME IInv, NEW l \in Lock, lock[l].entry # NULL, EndLockAndCleanup(l),
         UNCHANGED <<backend, notify>>
  PROVE  IInv'
<1> DEFINE e == lock[l].entry
           vol == lock[l].fsvol
<1>1. /\ entry \in [Entry -> EntryRecord] /\ lock \in [Lock -> LockRecord]
      /\ notify \in [Request -> NotifyRecord]
  BY DEF IInv, TypeOK
<1>2. e \in Entry /\ vol \in Volume
  BY <1>1 DEF IInv, NoDangling, LockRecord
<1>3. /\ lock' \in [Lock -> LockRecord]
      /\ lock'[l] = NoLock
      /\ \A k \in Lock : k # l => lock'[k] = lock[k]
  BY <1>1, NoRecordTypes DEF EndLockAndCleanup, FbxEndLock
<1>4. /\ currvol' = currvol /\ shutdown' = shutdown
      /\ volumelist' \subseteq volumelist
      /\ volumelist \subseteq volumelist' \cup {vol}
      /\ freed' \subseteq Volume
      /\ volumelist' # volumelist => \A k \in Lock : lock'[k].fsvol # vol
  BY <1>2 DEF EndLockAndCleanup, FbxEndLock, NoLocksOn, IInv, TypeOK
<1>5. /\ \A x \in Entry : x # e => entry'[x] = entry[x]
      /\ \/ entry'[e] = entry[e]
         \/ /\ entry'[e] = NoEntry
            /\ \A k \in Lock : lock'[k].entry # e
            /\ \A n \in Request : notify[n].entry # e
  BY <1>1 DEF EndLockAndCleanup, FbxCleanupEntry
<1>6. entry' \in [Entry -> EntryRecord]
  BY <1>1, <1>2, CleanupType DEF EndLockAndCleanup
<1>7. \A k \in Lock : lock'[k].entry # NULL =>
        /\ k # l /\ lock'[k] = lock[k] /\ lock[k].entry \in Entry
        /\ entry'[lock[k].entry] = entry[lock[k].entry]
  BY <1>1, <1>3, <1>5 DEF LockRecord, NoLock
<1>8. Shape'
  BY <1>3, <1>4, <1>5 DEF IInv, Shape
<1>9. XlockSole'
  BY <1>7 DEF IInv, XlockSole
<1>10. NoDangling'
  <2>1. \A k \in Lock : lock'[k].entry # NULL =>
          /\ lock'[k].fsvol # NULL /\ lock'[k].fsvol \in volumelist' \cup {currvol'}
          /\ entry'[lock'[k].entry].vol = lock'[k].fsvol
    BY <1>4, <1>7 DEF IInv, NoDangling
  <2>2. \A n \in Request : notify[n].entry # NULL =>
          entry'[notify[n].entry] = entry[notify[n].entry]
    BY <1>1, <1>5 DEF NotifyRecord
  <2>3. QED
    BY <2>1, <2>2 DEF IInv, NoDangling
<1>11. OpenOnCurrent'
  BY <1>3, <1>4 DEF IInv, OpenOnCurrent, OnCurrent, OkVolume, NoLock
<1>12. QED
  BY <1>1, <1>3, <1>4, <1>6, <1>8, <1>9, <1>10, <1>11 DEF IInv, TypeOK, backend

LEMMA ChangeModeSafe ==
  ASSUME IInv, NEW l \in Lock, NEW mode \in Access, FbxChangeMode(l, mode)
  PROVE  IInv'
<1> DEFINE e == lock[l].entry
<1>1. /\ entry \in [Entry -> EntryRecord] /\ lock \in [Lock -> LockRecord]
      /\ OnCurrent(l) /\ LockList(e) = {l}
      /\ UNCHANGED <<backend, volumes, notify>>
      /\ lock' = [lock EXCEPT ![l].access = mode]
  BY DEF FbxChangeMode, IInv, TypeOK
<1>2. e \in Entry
  BY <1>1, OnCurrentEntry
<1>3. /\ lock' \in [Lock -> LockRecord]
      /\ \A k \in Lock : k # l => lock'[k] = lock[k]
      /\ lock'[l].entry = e /\ lock'[l].fsvol = lock[l].fsvol
      /\ lock'[l].info = lock[l].info /\ lock'[l].fh = lock[l].fh
      /\ lock'[l].access = mode
  BY <1>1 DEF LockRecord
<1>4. /\ entry' \in [Entry -> EntryRecord]
      /\ \A x \in Entry : x # e => entry'[x] = entry[x]
      /\ entry'[e].vol = entry[e].vol
      /\ mode = EXCLUSIVE_LOCK => entry'[e].xlock
  <2>1. CASE mode = BAD_MODE
    BY <1>1, <2>1 DEF FbxChangeMode, BAD_MODE, EXCLUSIVE_LOCK
  <2>2. CASE mode # BAD_MODE
    <3>1. entry' = [entry EXCEPT ![e].xlock = (mode = EXCLUSIVE_LOCK)]
      BY <2>2 DEF FbxChangeMode
    <3>2. entry' = [entry EXCEPT ![e] = [entry[e] EXCEPT
                                          !.xlock = (mode = EXCLUSIVE_LOCK)]]
      BY <3>1
    <3>3. /\ [entry[e] EXCEPT !.xlock = (mode = EXCLUSIVE_LOCK)] \in EntryRecord
          /\ [entry[e] EXCEPT !.xlock = (mode = EXCLUSIVE_LOCK)].vol = entry[e].vol
          /\ [entry[e] EXCEPT !.xlock = (mode = EXCLUSIVE_LOCK)].xlock
               = (mode = EXCLUSIVE_LOCK)
      BY <1>1, <1>2 DEF EntryRecord
    <3>4. QED
      BY <1>1, <1>2, <3>2, <3>3
  <2>3. QED
    BY <2>1, <2>2
<1>5. \A k \in Lock : lock[k].entry = e => k = l
  BY <1>1 DEF LockList
<1>6. Shape'
  BY <1>1, <1>2, <1>3, <1>4, OnCurrentEntry, NullOutside DEF IInv, Shape, volumes
<1>7. XlockSole'
  <2>1. \A k \in Lock : k # l /\ lock[k].entry # NULL =>
          entry'[lock[k].entry] = entry[lock[k].entry]
    BY <1>1, <1>4, <1>5 DEF LockRecord
  <2>2. QED
    BY <1>3, <1>4, <1>5, <2>1 DEF IInv, XlockSole
<1>8. NoDangling'
  <2>1. \A x \in Entry : entry'[x].vol = entry[x].vol
    BY <1>4
  <2>2. \A k \in Lock : lock'[k].entry = lock[k].entry /\ lock'[k].fsvol = lock[k].fsvol
    BY <1>3
  <2>3. /\ \A k \in Lock : lock[k].entry \in Entry \cup {NULL}
        /\ \A n \in Request : notify[n].entry \in Entry \cup {NULL}
    BY DEF IInv, TypeOK, LockRecord, NotifyRecord
  <2>4. QED
    BY <1>1, <2>1, <2>2, <2>3 DEF IInv, NoDangling, volumes
<1>9. OpenOnCurrent'
  BY <1>1, <1>3 DEF IInv, OpenOnCurrent, OnCurrent, OkVolume, volumes
<1>10. QED
  BY <1>1, <1>3, <1>4, <1>6, <1>7, <1>8, <1>9 DEF IInv, TypeOK, backend, volumes

-----------------------------------------------------------------------------
(* Packets that change the name space *)

\* Requests of an entry that goes away, or that is renamed, wait again.
LEMMA UnResolved ==
  ASSUME IInv, NEW e \in Entry
  PROVE  /\ FbxUnResolveNotifys(e) \in [Request -> NotifyRecord]
         /\ \A n \in Request :
              /\ FbxUnResolveNotifys(e)[n].vol = notify[n].vol
              /\ \/ FbxUnResolveNotifys(e)[n] = notify[n] /\ notify[n].entry # e
                 \/ /\ FbxUnResolveNotifys(e)[n].entry = NULL
                    /\ notify[n].vol # NULL
<1>1. FbxUnResolveNotifys(e) \in [Request -> NotifyRecord]
  BY UnResolveType DEF IInv
<1>2. \A n \in Request : notify[n] \in NotifyRecord
  BY DEF IInv, TypeOK
<1>3. \A n \in Request : notify[n].entry = e => notify[n].vol # NULL
  BY NullOutside DEF IInv, NoDangling
<1>4. QED
  BY <1>1, <1>2, <1>3 DEF FbxUnResolveNotifys, NotifyRecord

LEMMA DeleteSafe ==
  ASSUME IInv, NEW p \in Path, FbxDeleteObject(p)
  PROVE  IInv'
<1>1. /\ UNCHANGED <<readonly, writeprotect, volumes, lock>>
      /\ tree' = [tree EXCEPT ![p] = NoNode]
  BY DEF FbxDeleteObject
<1>2. tree' \in Tree
  BY <1>1, NodeTypes DEF IInv, TypeOK, Tree
<1>3. /\ entry' \in [Entry -> EntryRecord] /\ lock' \in [Lock -> LockRecord]
      /\ notify' \in [Request -> NotifyRecord]
      /\ Shape' /\ XlockSole' /\ NoDangling' /\ OpenOnCurrent'
  <2>1. CASE UNCHANGED <<entry, notify>>
    BY <1>1, <2>1, TablesStay
  <2>2. ASSUME NEW e \in FbxFindEntry(p), LockList(e) = {},
               notify' = FbxUnResolveNotifys(e),
               entry' = FbxCleanupEntry(entry, lock, notify', e)
        PROVE  /\ entry' \in [Entry -> EntryRecord] /\ lock' \in [Lock -> LockRecord]
               /\ notify' \in [Request -> NotifyRecord]
               /\ Shape' /\ XlockSole' /\ NoDangling' /\ OpenOnCurrent'
    <3>1. /\ e \in Entry /\ entry \in [Entry -> EntryRecord]
          /\ lock \in [Lock -> LockRecord]
      BY DEF FbxFindEntry, IInv, TypeOK
    <3>2. entry' \in [Entry -> EntryRecord] /\ lock' \in [Lock -> LockRecord]
      BY <1>1, <2>2, <3>1, CleanupType
    <3>3. \A l \in Lock : lock[l].entry # e
      BY <2>2 DEF LockList
    <3>4. /\ notify' \in [Request -> NotifyRecord]
          /\ \A n \in Request :
               /\ notify'[n].vol = notify[n].vol
               /\ \/ notify'[n] = notify[n] /\ notify[n].entry # e
                  \/ notify'[n].entry = NULL /\ notify[n].vol # NULL
      BY <2>2, <3>1, UnResolved
    <3>5. /\ \A x \in Entry : x # e => entry'[x] = entry[x]
          /\ entry'[e] = entry[e] \/ entry'[e] = NoEntry
      BY <2>2, <3>1 DEF FbxCleanupEntry
    <3>6. \A l \in Lock : lock[l].entry # NULL =>
            entry'[lock[l].entry] = entry[lock[l].entry]
      BY <3>1, <3>3, <3>5 DEF LockRecord
    <3>7. Shape'
      BY <1>1, <3>4, <3>5 DEF IInv, Shape, volumes
    <3>8. XlockSole'
      BY <1>1, <3>6 DEF IInv, XlockSole
    <3>9. NoDangling'
      <4>1. \A n \in Request : notify'[n].entry # NULL =>
              /\ notify'[n] = notify[n]
              /\ entry'[notify[n].entry] = entry[notify[n].entry]
        BY <3>4, <3>5 DEF NotifyRecord
      <4>2. QED
        BY <1>1, <3>6, <4>1 DEF IInv, NoDangling, volumes
    <3>10. OpenOnCurrent'
      BY <1>1 DEF IInv, OpenOnCurrent, OnCurrent, OkVolume, volumes
    <3>11. QED
      BY <3>2, <3>4, <3>7, <3>8, <3>9, <3>10
  <2>3. QED
    BY <2>1, <2>2 DEF FbxDeleteObject
<1>4. QED
  BY <1>1, <1>2, <1>3 DEF IInv, TypeOK, volumes

LEMMA MovedTreeType ==
  ASSUME TypeOK, NEW p, NEW q
  PROVE  MovedTree(p, q) \in Tree
<1>1. \A x \in Path : tree[x] \in Node
  BY DEF TypeOK, Tree
<1>2. QED
  BY <1>1, NodeTypes DEF MovedTree, Tree

\* A rename changes nothing of an entry but its path.
LEMMA UpdatePathsMoves ==
  ASSUME NEW entries \in [Entry -> EntryRecord], NEW p \in Path, NEW q \in Path,
         \A x \in Entry : entries[x].vol = currvol /\ FbxIsParent(p, entries[x].path)
                          => Rebase(p, q, entries[x].path) \in Path
  PROVE  /\ FbxUpdatePaths(entries, p, q) \in [Entry -> EntryRecord]
         /\ \A x \in Entry : FbxUpdatePaths(entries, p, q)[x] =
              [entries[x] EXCEPT !.path = FbxUpdatePaths(entries, p, q)[x].path]
         /\ \A x \in Entry : FbxUpdatePaths(entries, p, q)[x] # entries[x]
              => entries[x].vol = currvol
<1> DEFINE moved(x) == [entries[x] EXCEPT !.path = Rebase(p, q, entries[x].path)]
<1>1. \A x \in Entry : FbxUpdatePaths(entries, p, q)[x] =
        IF entries[x].vol = currvol /\ FbxIsParent(p, entries[x].path)
        THEN moved(x) ELSE entries[x]
  BY DEF FbxUpdatePaths
<1>2. \A x \in Entry : /\ entries[x] \in EntryRecord
                        /\ entries[x] = [entries[x] EXCEPT !.path = entries[x].path]
  BY DEF EntryRecord
<1>3. \A x \in Entry : entries[x].vol = currvol /\ FbxIsParent(p, entries[x].path)
        => /\ moved(x) \in EntryRecord
           /\ moved(x) = [entries[x] EXCEPT !.path = moved(x).path]
  BY <1>2 DEF EntryRecord
<1>4. FbxUpdatePaths(entries, p, q) \in [Entry -> EntryRecord]
  <2>1. \A x \in Entry : FbxUpdatePaths(entries, p, q)[x] \in EntryRecord
    BY <1>1, <1>2, <1>3
  <2>2. FbxUpdatePaths(entries, p, q)
          = [x \in Entry |-> FbxUpdatePaths(entries, p, q)[x]]
    BY DEF FbxUpdatePaths
  <2>3. QED
    BY <2>1, <2>2
<1>5. QED
  BY <1>1, <1>2, <1>3, <1>4

\* Entries keep everything but their paths, and every request keeps its volume
\* and hangs on no other entry than before, or on one of its volume.
LEMMA PathsMoveSafe ==
  ASSUME IInv, currvol \in Volume, UNCHANGED volumes, UNCHANGED lock,
         entry' \in [Entry -> EntryRecord],
         \A x \in Entry : entry'[x] = [entry[x] EXCEPT !.path = entry'[x].path],
         \A x \in Entry : entry'[x] # entry[x] => entry[x].vol = currvol,
         notify' \in [Request -> NotifyRecord],
         \A n \in Request :
           /\ notify'[n].vol = notify[n].vol
           /\ \/ notify'[n] = notify[n]
              \/ notify'[n].entry = NULL /\ notify[n].vol # NULL
              \/ /\ notify[n].vol = currvol /\ notify'[n].entry \in Entry
                 /\ entry[notify'[n].entry].vol = currvol
  PROVE  Shape' /\ XlockSole' /\ NoDangling' /\ OpenOnCurrent'
<1>1. \A x \in Entry : entry[x] \in EntryRecord
  BY DEF IInv, TypeOK
<1>2. \A x \in Entry : entry'[x].vol = entry[x].vol /\ entry'[x].xlock = entry[x].xlock
  BY <1>1 DEF EntryRecord
<1>3. \A l \in Lock : lock[l].entry # NULL => lock[l].entry \in Entry
  BY DEF IInv, TypeOK, LockRecord
<1>4. Shape'
  BY <1>2, NullOutside DEF IInv, Shape, volumes
<1>5. XlockSole'
  BY <1>2, <1>3 DEF IInv, XlockSole
<1>6. NoDangling'
  <2>1. \A n \in Request : notify'[n].entry # NULL =>
          /\ notify'[n].vol # NULL
          /\ entry'[notify'[n].entry].vol = notify'[n].vol
    <3> SUFFICES ASSUME NEW n \in Request, notify'[n].entry # NULL
                 PROVE  /\ notify'[n].vol # NULL
                        /\ entry'[notify'[n].entry].vol = notify'[n].vol
      OBVIOUS
    <3>1. notify'[n].entry \in Entry
      BY DEF NotifyRecord
    <3>2. CASE notify'[n] = notify[n]
      BY <1>2, <3>1, <3>2 DEF IInv, NoDangling
    <3>3. CASE notify'[n] # notify[n]
      BY <1>2, <3>1, <3>3, NullOutside
    <3>4. QED
      BY <3>2, <3>3
  <2>2. QED
    BY <1>2, <1>3, <2>1 DEF IInv, NoDangling, volumes
<1>7. OpenOnCurrent'
  BY DEF IInv, OpenOnCurrent, OnCurrent, OkVolume, volumes
<1>8. QED
  BY <1>4, <1>5, <1>6, <1>7

LEMMA RenameSafe ==
  ASSUME IInv, NEW p \in Path, NEW q \in Path, FbxRenameObject(p, q)
  PROVE  IInv'
<1>1. /\ currvol \in Volume /\ entry \in [Entry -> EntryRecord]
      /\ notify \in [Request -> NotifyRecord] /\ lock \in [Lock -> LockRecord]
      /\ UNCHANGED <<readonly, writeprotect, volumes, lock>>
  BY DEF FbxRenameObject, OkVolume, IInv, TypeOK
<1>2. tree' \in Tree
  BY MovedTreeType DEF FbxRenameObject, IInv, TypeOK
<1>3. \A x \in Entry : entry[x].vol = currvol /\ FbxIsParent(p, entry[x].path)
        => Rebase(p, q, entry[x].path) \in Path
  <2>1. \A x \in Entry : entry[x].path \in Path
    BY <1>1 DEF EntryRecord
  <2>2. \A x \in Entry : entry[x].vol = currvol
                          => FbxFindEntry(entry[x].path) # {}
    BY DEF FbxFindEntry
  <2>3. QED
    BY <2>1, <2>2 DEF FbxRenameObject
<1>4. /\ entry' \in [Entry -> EntryRecord]
      /\ notify' \in [Request -> NotifyRecord]
      /\ Shape' /\ XlockSole' /\ NoDangling' /\ OpenOnCurrent'
  <2>1. CASE entry' = FbxUpdatePaths(entry, p, q) /\ UNCHANGED notify
    <3>1. /\ entry' \in [Entry -> EntryRecord]
          /\ \A x \in Entry : entry'[x] = [entry[x] EXCEPT !.path = entry'[x].path]
          /\ \A x \in Entry : entry'[x] # entry[x] => entry[x].vol = currvol
      BY <1>1, <1>3, <2>1, UpdatePathsMoves
    <3>2. QED
      BY <1>1, <2>1, <3>1, PathsMoveSafe
  <2>2. ASSUME NEW e \in FbxFindEntry(p),
               entry' = FbxUpdatePaths([entry EXCEPT ![e].path = q], p, q),
               notify' = FbxTryResolveNotify(FbxUnResolveNotifys(e), e, q)
        PROVE  /\ entry' \in [Entry -> EntryRecord]
               /\ notify' \in [Request -> NotifyRecord]
               /\ Shape' /\ XlockSole' /\ NoDangling' /\ OpenOnCurrent'
    <3> DEFINE mid == [entry EXCEPT ![e].path = q]
    <3>1. e \in Entry /\ entry[e].vol = currvol
      BY DEF FbxFindEntry
    <3>2. /\ mid \in [Entry -> EntryRecord]
          /\ mid[e] = [entry[e] EXCEPT !.path = q]
          /\ mid[e].path = q /\ mid[e].vol = currvol
          /\ \A x \in Entry : x # e => mid[x] = entry[x]
      BY <1>1, <3>1 DEF EntryRecord
    <3>3. \A x \in Entry : mid[x].vol = currvol /\ FbxIsParent(p, mid[x].path)
            => Rebase(p, q, mid[x].path) \in Path
      <4>1. ~FbxIsParent(p, mid[e].path)
        BY <3>2 DEF FbxRenameObject
      <4>2. QED
        BY <1>3, <3>2, <4>1
    <3>0. entry' = FbxUpdatePaths(mid, p, q)
      BY <2>2
    <3> HIDE DEF mid
    <3>4. /\ entry' \in [Entry -> EntryRecord]
          /\ \A x \in Entry : entry'[x] = [mid[x] EXCEPT !.path = entry'[x].path]
          /\ \A x \in Entry : entry'[x] # mid[x] => mid[x].vol = currvol
      BY <3>0, <3>2, <3>3, UpdatePathsMoves
    <3>5. \A x \in Entry : entry'[x] = [entry[x] EXCEPT !.path = entry'[x].path]
      <4>1. \A x \in Entry : x # e => entry'[x] = [entry[x] EXCEPT !.path = entry'[x].path]
        BY <3>2, <3>4
      <4>2. entry'[e] = [[entry[e] EXCEPT !.path = q] EXCEPT !.path = entry'[e].path]
        BY <3>1, <3>2, <3>4
      <4>3. entry[e] \in EntryRecord
        BY <1>1, <3>1
      <4>4. entry'[e] = [entry[e] EXCEPT !.path = entry'[e].path]
        BY <4>2, <4>3 DEF EntryRecord
      <4>5. QED
        BY <4>1, <4>4
    <3>6. \A x \in Entry : entry'[x] # entry[x] => entry[x].vol = currvol
      BY <3>1, <3>2, <3>4
    <3>7. notify' \in [Request -> NotifyRecord]
      BY <2>2, <3>1, UnResolved, ResolveType
    <3>8. \A n \in Request :
           /\ notify'[n].vol = notify[n].vol
           /\ \/ notify'[n] = notify[n]
              \/ notify'[n].entry = NULL /\ notify[n].vol # NULL
              \/ /\ notify[n].vol = currvol /\ notify'[n].entry \in Entry
                 /\ entry[notify'[n].entry].vol = currvol
      <4> DEFINE un == FbxUnResolveNotifys(e)
      <4>1. /\ un \in [Request -> NotifyRecord]
            /\ \A n \in Request :
                 /\ un[n].vol = notify[n].vol
                 /\ \/ un[n] = notify[n]
                    \/ un[n].entry = NULL /\ notify[n].vol # NULL
        BY <3>1, UnResolved
      <4> HIDE DEF un
      <4>2. \A n \in Request :
              /\ notify'[n].vol = un[n].vol
              /\ \/ notify'[n] = un[n]
                 \/ un[n].vol = currvol /\ notify'[n].entry = e
        BY <2>2, <4>1 DEF FbxTryResolveNotify, un, NotifyRecord
      <4>3. QED
        BY <3>1, <4>1, <4>2
    <3>9. QED
      BY <1>1, <3>4, <3>5, <3>6, <3>7, <3>8, PathsMoveSafe
  <2>3. QED
    BY <1>1, <2>1, <2>2 DEF FbxRenameObject
<1>5. QED
  BY <1>1, <1>2, <1>4 DEF IInv, TypeOK, volumes

LEMMA HardLinkSafe ==
  ASSUME IInv, NEW p \in Path, NEW l \in Lock, FbxMakeHardLink(p, l)
  PROVE  IInv'
<1> DEFINE target == entry[lock[l].entry].path
<1>1. /\ tree' = [tree EXCEPT ![p] = tree[target]]
      /\ UNCHANGED <<readonly, writeprotect, volumes, entry, lock, notify>>
  BY DEF FbxMakeHardLink
<1>2. lock[l].entry \in Entry
  BY OnCurrentEntry DEF FbxMakeHardLink
<1>3. target \in Path
  BY <1>2 DEF IInv, TypeOK, EntryRecord
<1>4. tree' \in Tree
  BY <1>1, <1>3 DEF IInv, TypeOK, Tree
<1>5. QED
  BY <1>1, <1>4, TablesStay DEF IInv, TypeOK, volumes

-----------------------------------------------------------------------------
(* Notify requests *)

LEMMA AddNotifySafe ==
  ASSUME IInv, NEW n \in Request, NEW p \in Path, NEW e \in Entry,
         FbxAddNotify(n, p, e)
  PROVE  IInv'
<1> DEFINE rec == Looked(e, p, tree[p].type, tree[p].ino)
           new == [vol |-> currvol, entry |-> e, path |-> p]
<1>1. /\ currvol \in Volume /\ EntryFor(e, p) /\ notify[n] = NoNotify
      /\ UNCHANGED <<backend, volumes, lock>>
      /\ entry' = [entry EXCEPT ![e] = rec]
      /\ notify' = [notify EXCEPT ![n] = new] \/ notify' = notify
      /\ entry \in [Entry -> EntryRecord] /\ notify \in [Request -> NotifyRecord]
      /\ lock \in [Lock -> LockRecord]
  BY DEF FbxAddNotify, OkVolume, IInv, TypeOK
<1>2. Lockable(e, rec)
  BY <1>1, LookedLockable, TreeType DEF FbxAddNotify, IInv
<1>3. /\ entry' \in [Entry -> EntryRecord]
      /\ \A x \in Entry : x # e => entry'[x] = entry[x]
      /\ entry'[e].vol = currvol
      /\ entry'[e] = entry[e] \/ entry[e].vol = NULL
  BY <1>1, <1>2 DEF Lockable
<1>4. /\ notify' \in [Request -> NotifyRecord]
      /\ \A m \in Request : m # n => notify'[m] = notify[m]
      /\ notify'[n] = new \/ notify'[n] = notify[n]
  <2>1. new \in NotifyRecord
    BY <1>1 DEF NotifyRecord
  <2>2. QED
    BY <1>1, <2>1
<1>5. \A x \in Entry : entry[x].vol # NULL => entry'[x] = entry[x]
  BY <1>3
<1>6. \A l \in Lock : lock[l].entry # NULL =>
        entry'[lock[l].entry] = entry[lock[l].entry]
  BY <1>1, <1>5 DEF IInv, NoDangling, LockRecord
<1>7. \A m \in Request : notify[m].entry # NULL =>
        entry'[notify[m].entry] = entry[notify[m].entry]
  BY <1>1, <1>5 DEF IInv, NoDangling, NotifyRecord
<1>8. Shape'
  BY <1>1, <1>3, <1>4, NullOutside DEF IInv, Shape, volumes
<1>9. XlockSole'
  BY <1>1, <1>6 DEF IInv, XlockSole
<1>10. NoDangling'
  <2>1. notify'[n] = new => /\ notify'[n].vol # NULL
                            /\ entry'[notify'[n].entry].vol = notify'[n].vol
    BY <1>1, <1>3, NullOutside
  <2>2. QED
    BY <1>1, <1>4, <1>6, <1>7, <2>1 DEF IInv, NoDangling, volumes
<1>11. OpenOnCurrent'
  BY <1>1 DEF IInv, OpenOnCurrent, OnCurrent, OkVolume, volumes
<1>12. QED
  BY <1>1, <1>3, <1>4, <1>8, <1>9, <1>10, <1>11 DEF IInv, TypeOK, backend, volumes

LEMMA RemoveNotifySafe ==
  ASSUME IInv, NEW n \in Request, FbxRemoveNotify(n)
  PROVE  IInv'
<1> DEFINE e == notify[n].entry
<1>1. /\ UNCHANGED <<backend, volumes, lock>>
      /\ entry \in [Entry -> EntryRecord] /\ notify \in [Request -> NotifyRecord]
      /\ lock \in [Lock -> LockRecord]
  BY DEF FbxRemoveNotify, IInv, TypeOK
<1>2. /\ notify' \in [Request -> NotifyRecord]
      /\ \A m \in Request : m # n => notify'[m] = notify[m]
      /\ notify'[n] = NoNotify
  BY <1>1, NoRecordTypes DEF FbxRemoveNotify
<1>3. /\ entry' \in [Entry -> EntryRecord]
      /\ \A x \in Entry :
           \/ entry'[x] = entry[x]
           \/ /\ entry'[x] = NoEntry
              /\ \A l \in Lock : lock[l].entry # x
              /\ \A m \in Request : notify'[m].entry # x
  <2>1. CASE e = NULL
    BY <1>1, <2>1 DEF FbxRemoveNotify
  <2>2. CASE e # NULL
    <3>1. e \in Entry
      BY <1>1, <2>2 DEF NotifyRecord
    <3>2. entry' = FbxCleanupEntry(entry, lock, notify', e)
      BY <2>2 DEF FbxRemoveNotify
    <3>3. entry' \in [Entry -> EntryRecord]
      BY <1>1, <3>1, <3>2, CleanupType
    <3>4. \/ entry' = entry
          \/ /\ entry' = [entry EXCEPT ![e] = NoEntry]
             /\ \A l \in Lock : lock[l].entry # e
             /\ \A m \in Request : notify'[m].entry # e
      BY <3>2 DEF FbxCleanupEntry
    <3>5. QED
      BY <1>1, <3>3, <3>4
  <2>3. QED
    BY <2>1, <2>2
<1>4. \A l \in Lock : lock[l].entry # NULL =>
        entry'[lock[l].entry] = entry[lock[l].entry]
  BY <1>1, <1>3 DEF LockRecord
<1>5. \A m \in Request : notify'[m].entry # NULL =>
        /\ notify'[m] = notify[m]
        /\ entry'[notify[m].entry] = entry[notify[m].entry]
  BY <1>1, <1>2, <1>3 DEF NotifyRecord, NoNotify
<1>6. Shape'
  BY <1>1, <1>2, <1>3 DEF IInv, Shape, volumes
<1>7. XlockSole'
  BY <1>1, <1>4 DEF IInv, XlockSole
<1>8. NoDangling'
  BY <1>1, <1>4, <1>5 DEF IInv, NoDangling, volumes
<1>9. OpenOnCurrent'
  BY <1>1 DEF IInv, OpenOnCurrent, OnCurrent, OkVolume, volumes
<1>10. QED
  BY <1>1, <1>2, <1>3, <1>6, <1>7, <1>8, <1>9 DEF IInv, TypeOK, backend, volumes

-----------------------------------------------------------------------------
(* Volumes *)

LEMMA WriteProtectSafe ==
  ASSUME IInv, NEW on \in Protection, FbxWriteProtect(on)
  PROVE  IInv'
<1>1. UNCHANGED <<tree, readonly, volumes, entry, lock, notify>>
  BY DEF FbxWriteProtect
<1>2. writeprotect' \in BOOLEAN
  BY FlagAssumption DEF FbxWriteProtect
<1>3. QED
  BY <1>1, <1>2, TablesStay DEF IInv, TypeOK, volumes

LEMMA SetupVolumeSafe ==
  ASSUME IInv, NEW vol \in Volume, NEW disk \in Disk, NEW ro \in Protection,
         FbxSetupVolume(vol, disk, ro)
  PROVE  IInv'
<1>1. /\ currvol = NULL /\ vol \notin volumelist /\ currvol' = vol
      /\ ~shutdown
      /\ UNCHANGED <<volumelist, freed, shutdown, entry, lock, notify>>
  BY DEF FbxSetupVolume, OkVolume
<1>2. tree' \in Tree /\ readonly' \in BOOLEAN /\ writeprotect' \in BOOLEAN
  BY DiskAssumption, FlagAssumption DEF FbxSetupVolume
<1>3. \A l \in Lock : ~lock[l].info
  BY <1>1 DEF IInv, OpenOnCurrent, OnCurrent, OkVolume
<1>4. Shape' /\ XlockSole'
  BY <1>1 DEF IInv, Shape, XlockSole
<1>5. NoDangling'
  BY <1>1 DEF IInv, NoDangling
<1>6. OpenOnCurrent'
  BY <1>1, <1>3 DEF OpenOnCurrent
<1>7. QED
  BY <1>1, <1>2, <1>4, <1>5, <1>6 DEF IInv, TypeOK

\* A volume is freed at once only when nothing refers to it.
LEMMA CleanupVolumeSafe ==
  ASSUME IInv, FbxCleanupVolume
  PROVE  IInv'
<1>1. /\ currvol \in Volume /\ currvol' = NULL
      /\ UNCHANGED <<backend, shutdown, entry, notify>>
      /\ lock \in [Lock -> LockRecord]
      /\ lock' = [l \in Lock |-> IF lock[l].fsvol = currvol
                                 THEN [lock[l] EXCEPT !.info = FALSE]
                                 ELSE lock[l]]
  BY DEF FbxCleanupVolume, OkVolume, IInv, TypeOK
<1>2. /\ lock' \in [Lock -> LockRecord]
      /\ \A l \in Lock : /\ lock'[l].entry = lock[l].entry
                         /\ lock'[l].fsvol = lock[l].fsvol
                         /\ lock'[l].access = lock[l].access
                         /\ lock'[l].info =>
                              lock[l].info /\ lock[l].fsvol # currvol
                         /\ lock[l].fsvol # currvol => lock'[l] = lock[l]
  <2>1. \A l \in Lock : lock[l] \in LockRecord
    BY <1>1
  <2>2. \A l \in Lock : lock'[l] = IF lock[l].fsvol = currvol
                                   THEN [lock[l] EXCEPT !.info = FALSE]
                                   ELSE lock[l]
    BY <1>1
  <2>3. \A l \in Lock : [lock[l] EXCEPT !.info = FALSE] \in LockRecord
    BY <2>1 DEF LockRecord
  <2>4. lock' \in [Lock -> LockRecord]
    BY <1>1, <2>1, <2>3
  <2>5. QED
    BY <2>1, <2>2, <2>4 DEF LockRecord
<1>3. /\ volumelist' \subseteq Volume /\ freed' \subseteq Volume
      /\ volumelist \subseteq volumelist'
      /\ \/ currvol \in volumelist'
         \/ \A l \in Lock : lock[l].fsvol # currvol
  BY <1>1 DEF FbxCleanupVolume, NoLocksOn, IInv, TypeOK
<1>4. Shape'
  <2>1. \A l \in Lock : lock[l].entry = NULL => lock[l].fsvol # currvol
    BY <1>1, NullOutside DEF IInv, Shape, NoLock
  <2>2. QED
    BY <1>1, <1>2, <1>3, <2>1, NullOutside DEF IInv, Shape
<1>5. XlockSole'
  BY <1>1, <1>2 DEF IInv, XlockSole
<1>6. NoDangling'
  BY <1>1, <1>2, <1>3 DEF IInv, NoDangling
<1>7. OpenOnCurrent'
  BY <1>2 DEF IInv, OpenOnCurrent, OnCurrent
<1>8. QED
  BY <1>1, <1>2, <1>3, <1>4, <1>5, <1>6, <1>7 DEF IInv, TypeOK, backend

\* What shutdown frees has no user left: every lock and every resolved request
\* is on the lists of a volume that goes.
LEMMA DieSafe ==
  ASSUME IInv, FbxDie
  PROVE  IInv'
<1> DEFINE gone == (volumelist \cup {currvol}) \ {NULL}
           held == {lock[l].entry : l \in {k \in Lock : lock[k].fsvol \in gone}}
                     \cup {notify[n].entry :
                            n \in {m \in Request : notify[m].vol \in gone}}
<1>1. /\ lock' = [l \in Lock |-> IF lock[l].fsvol \in gone THEN NoLock ELSE lock[l]]
      /\ notify' = [n \in Request |->
                      IF notify[n].vol \in gone THEN NoNotify ELSE notify[n]]
      /\ entry' = [e \in Entry |-> IF e \in held THEN NoEntry ELSE entry[e]]
      /\ freed' = freed \cup gone
      /\ volumelist' = {} /\ currvol' = NULL
      /\ shutdown' = TRUE
      /\ UNCHANGED backend
  BY DEF FbxDie
<1> HIDE DEF held
<1>2. /\ entry \in [Entry -> EntryRecord] /\ lock \in [Lock -> LockRecord]
      /\ notify \in [Request -> NotifyRecord]
      /\ currvol \in Volume \cup {NULL} /\ volumelist \subseteq Volume
      /\ freed \subseteq Volume
  BY DEF IInv, TypeOK
<1>3. TypeOK'
  <2>1. entry' \in [Entry -> EntryRecord]
    BY <1>1, <1>2, NoRecordTypes
  <2>2. lock' \in [Lock -> LockRecord]
    BY <1>1, <1>2, NoRecordTypes
  <2>3. notify' \in [Request -> NotifyRecord]
    BY <1>1, <1>2, NoRecordTypes
  <2>4. QED
    BY <1>1, <1>2, <2>1, <2>2, <2>3 DEF IInv, TypeOK, backend
<1>4. \A l \in Lock : lock[l].fsvol \notin gone => lock[l] = NoLock
  BY DEF IInv, Shape, NoDangling
<1>5. \A l \in Lock : lock'[l] = NoLock
  BY <1>1, <1>4
<1>6. \A n \in Request : notify'[n].entry # NULL =>
        /\ notify'[n] = notify[n]
        /\ notify[n].entry \in Entry
        /\ notify[n].vol \notin gone /\ notify[n].vol # NULL
  BY <1>1, <1>2 DEF IInv, NoDangling, NoNotify, NotifyRecord
<1>7. \A e \in Entry : e \in held => entry[e].vol \in gone
  BY <1>2, NullOutside DEF held, IInv, Shape, NoDangling, NoLock
<1>8. \A n \in Request : notify'[n].entry # NULL =>
        entry'[notify'[n].entry] = entry[notify[n].entry]
  BY <1>1, <1>6, <1>7 DEF IInv, NoDangling
<1>9. Shape'
  BY <1>1, <1>5 DEF IInv, Shape
<1>10. XlockSole'
  BY <1>5 DEF XlockSole, NoLock
<1>11. NoDangling'
  BY <1>5, <1>6, <1>8 DEF IInv, NoDangling, NoLock
<1>12. OpenOnCurrent'
  BY <1>5 DEF OpenOnCurrent, NoLock
<1>13. QED
  BY <1>3, <1>9, <1>10, <1>11, <1>12 DEF IInv

-----------------------------------------------------------------------------
(* The backend's tree *)

LEMMA PathsAreSequences ==
  \A p \in Path : p \in Seq(STRING)
BY PathAssumption

\* Above a directory there are directories.
LEMMA AncestorsAreDirs ==
  ASSUME ClosedTree(tree), NEW p \in Path, p # Root, tree[Front(p)].type = "dir",
         NEW b \in Path, FbxIsParent(b, p)
  PROVE  tree[b].type = "dir"
BY FrontIsParent DEF ClosedTree

\* mknod, mkdir, create and link.
LEMMA MakeCloses ==
  ASSUME TypeOK, ClosedTree(tree), NEW p \in Path, p # Root, ~Exists(p),
         tree[Front(p)].type = "dir", NEW n,
         tree' = [tree EXCEPT ![p] = n]
  PROVE  ClosedTree(tree') /\ \A x \in Path : Exists(x) => tree'[x] = tree[x]
<1>1. tree'[p] = n /\ \A x \in Path : x # p => tree'[x] = tree[x]
  BY DEF TypeOK, Tree
<1>2. \A x \in Path : Exists(x) => tree'[x] = tree[x]
  BY <1>1
<1>3. ASSUME NEW u \in Path, NEW b \in Path, FbxIsParent(b, u), tree'[u].type # "none"
      PROVE  tree'[b].type = "dir"
  <2>1. CASE u = p
    <3>1. b # p
      BY <1>3, <2>1, ParentOrder, PathsAreSequences
    <3>2. QED
      BY <1>1, <1>3, <2>1, <3>1, AncestorsAreDirs
  <2>2. CASE u # p
    <3>1. tree[b].type = "dir"
      BY <1>1, <1>3, <2>2 DEF ClosedTree
    <3>2. QED
      BY <1>2, <3>1 DEF Exists
  <2>3. QED
    BY <2>1, <2>2
<1>4. QED
  BY <1>2, <1>3 DEF ClosedTree

\* unlink and rmdir.
LEMMA RemoveCloses ==
  ASSUME TypeOK, ClosedTree(tree), NEW p \in Path, CanRemove(p),
         tree' = [tree EXCEPT ![p] = NoNode]
  PROVE  ClosedTree(tree') /\ \A x \in Path : x # p => tree'[x] = tree[x]
<1>1. tree'[p].type = "none" /\ \A x \in Path : x # p => tree'[x] = tree[x]
  BY DEF TypeOK, Tree, NoNode
<1>2. ASSUME NEW u \in Path, NEW b \in Path, FbxIsParent(b, u), tree'[u].type # "none"
      PROVE  tree'[b].type = "dir"
  <2>1. u # p /\ Exists(u)
    BY <1>1, <1>2 DEF Exists
  <2>2. b # p
    BY <1>2, <2>1 DEF CanRemove
  <2>3. QED
    BY <1>1, <1>2, <2>1, <2>2 DEF ClosedTree, Exists
<1>3. QED
  BY <1>1, <1>2 DEF ClosedTree

\* Where an object is after a rename of p to q.
NewName(p, q, x) == IF x = p \/ FbxIsParent(p, x) THEN Rebase(p, q, x) ELSE x

\* A rename to a free name: everything is under its new name afterwards, and
\* no two objects have the same.
LEMMA MoveCloses ==
  ASSUME TypeOK, ClosedTree(tree), NEW p \in Path, NEW q \in Path, q # Root,
         p # q, ~FbxIsParent(p, q), ~Exists(q), CanMove(p, q),
         tree' = MovedTree(p, q)
  PROVE  /\ ClosedTree(tree')
         /\ \A x \in Path : Exists(x) /\ NewName(p, q, x) \in Path
              => tree'[NewName(p, q, x)] = tree[x]
         /\ \A x, y \in Path : Exists(x) /\ Exists(y) /\ NewName(p, q, x) = NewName(p, q, y)
              => x = y
<1> DEFINE Under(d, x) == x = d \/ FbxIsParent(d, x)
<1>1. p \in Seq(STRING) /\ q \in Seq(STRING) /\ \A x \in Path : x \in Seq(STRING)
  BY PathsAreSequences
<1>2. \A x \in Path : Under(q, x) => ~Exists(x)
  BY DEF ClosedTree, Exists
<1>3. \A x \in Path : tree'[x] = IF Under(q, x)
                                 THEN IF Rebase(q, p, x) \in Path THEN tree[Rebase(q, p, x)]
                                                                  ELSE NoNode
                                 ELSE IF Under(p, x) THEN NoNode ELSE tree[x]
  BY DEF MovedTree
<1>4. \A x \in Path : Under(p, x) =>
        /\ Under(q, Rebase(p, q, x))
        /\ Rebase(q, p, Rebase(p, q, x)) = x
  BY <1>1, RebaseMoves
<1>5. ASSUME NEW x \in Path, Exists(x), NewName(p, q, x) \in Path
      PROVE  tree'[NewName(p, q, x)] = tree[x]
  <2>1. CASE Under(p, x)
    BY <1>3, <1>4, <1>5, <2>1 DEF NewName
  <2>2. CASE ~Under(p, x)
    BY <1>2, <1>3, <1>5, <2>2 DEF NewName
  <2>3. QED
    BY <2>1, <2>2
<1>6. ASSUME NEW x \in Path, NEW y \in Path, Exists(x), Exists(y),
             NewName(p, q, x) = NewName(p, q, y)
      PROVE  x = y
  <2>1. CASE Under(p, x) /\ Under(p, y)
    BY <1>4, <1>6, <2>1 DEF NewName
  <2>2. CASE Under(p, x) /\ ~Under(p, y)
    BY <1>2, <1>4, <1>6, <2>2 DEF NewName
  <2>3. CASE ~Under(p, x) /\ Under(p, y)
    BY <1>2, <1>4, <1>6, <2>3 DEF NewName
  <2>4. CASE ~Under(p, x) /\ ~Under(p, y)
    BY <1>6, <2>4 DEF NewName
  <2>5. QED
    BY <2>1, <2>2, <2>3, <2>4
<1>7. ASSUME NEW u \in Path, NEW b \in Path, FbxIsParent(b, u), tree'[u].type # "none"
      PROVE  tree'[b].type = "dir"
  <2>0. u \in Seq(STRING) /\ b \in Seq(STRING)
    BY <1>1
  <2>1. CASE Under(q, u) /\ Under(q, b)
    <3> DEFINE ra == Rebase(q, p, u)
               rb == Rebase(q, p, b)
    <3>1. ra \in Path /\ tree'[u] = tree[ra]
      BY <1>3, <1>7, <2>1 DEF NoNode
    <3>2. rb \in Seq(STRING) /\ FbxIsParent(rb, ra)
      <4>1. CASE b = q
        <5>1. rb = p /\ FbxIsParent(p, ra)
          BY <1>1, <1>7, <2>0, <4>1, RebaseMoves
        <5>2. QED
          BY <1>1, <5>1
      <4>2. CASE FbxIsParent(q, b)
        BY <1>1, <1>7, <2>0, <4>2, RebaseMoves, RebaseKeepsOrder
      <4>3. QED
        BY <2>1, <4>1, <4>2
    <3>3. rb \in Path
      BY <3>1, <3>2, ParentInPath
    <3>4. tree[rb].type = "dir"
      BY <1>7, <3>1, <3>2, <3>3 DEF ClosedTree
    <3>5. QED
      BY <1>3, <2>1, <3>3, <3>4
  <2>2. CASE Under(q, u) /\ ~Under(q, b)
    <3>1. FbxIsParent(b, q)
      BY <1>1, <1>7, <2>0, <2>2, ParentOrder
    <3>2. tree[b].type = "dir"
      BY <3>1, AncestorsAreDirs DEF CanMove
    <3>3. ~Under(p, b)
      BY <1>1, <2>0, <3>1, ParentOrder
    <3>4. QED
      BY <1>3, <2>2, <3>2, <3>3
  <2>3. CASE ~Under(q, u)
    <3>1. ~Under(p, u) /\ tree'[u] = tree[u]
      BY <1>3, <1>7, <2>3 DEF NoNode
    <3>2. ~Under(q, b) /\ ~Under(p, b)
      BY <1>1, <1>7, <2>0, <2>3, <3>1, ParentOrder
    <3>3. tree[b].type = "dir"
      BY <1>7, <3>1 DEF ClosedTree
    <3>4. QED
      BY <1>3, <3>2, <3>3
  <2>4. QED
    BY <2>1, <2>2, <2>3
<1>8. QED
  BY <1>5, <1>6, <1>7 DEF ClosedTree

-----------------------------------------------------------------------------
(* Entries and the objects they name *)

SameName(x) ==
  /\ entry'[x].vol = entry[x].vol /\ entry'[x].path = entry[x].path
  /\ entry'[x].type = entry[x].type /\ entry'[x].diskkey = entry[x].diskkey

\* e became the only entry of p, for the object that is there now.
NewlyNames(e, p) ==
  /\ FbxFindEntry(p) = {}
  /\ entry'[e].vol = currvol /\ entry'[e].path = p
  /\ entry'[e].type = tree'[p].type
  /\ entry'[e].diskkey # NULL => tree'[p].ino = entry'[e].diskkey

\* A step with the same volumes in which entries go, keep their names, or
\* become the first one of an object.
LEMMA NamesKept ==
  ASSUME NamesInv, ClosedTree(tree'), currvol' = currvol,
         volumelist \cup freed \subseteq volumelist' \cup freed',
         NEW e, NEW p,
         \A x \in Entry : \/ entry'[x].vol = NULL
                          \/ SameName(x)
                          \/ x = e /\ NewlyNames(e, p),
         \A x \in Entry : entry[x].vol = currvol /\ entry'[x].vol # NULL
                            => tree'[entry[x].path] = tree[entry[x].path]
  PROVE  NamesInv'
<1>1. VolumesKnown'
  BY DEF NamesInv, VolumesKnown, SameName, NewlyNames
<1>2. ASSUME currvol # NULL, NEW x \in Entry, NEW y \in Entry,
             entry'[x].vol = currvol, entry'[y].vol = currvol,
             entry'[x].path = entry'[y].path, entry'[x].path \in Path
      PROVE  x = y
  <2>1. CASE SameName(x) /\ SameName(y)
    <3>1. /\ entry[x].path \in Path
          /\ x \in FbxFindEntry(entry[x].path) /\ y \in FbxFindEntry(entry[x].path)
      BY <1>2, <2>1 DEF FbxFindEntry, SameName
    <3>2. QED
      BY <1>2, <3>1 DEF NamesInv, OneEntryPerPath, OkVolume
  <2>2. CASE x = e /\ NewlyNames(e, p) /\ SameName(y)
    BY <1>2, <2>2 DEF FbxFindEntry, SameName, NewlyNames
  <2>3. CASE y = e /\ NewlyNames(e, p) /\ SameName(x)
    BY <1>2, <2>3 DEF FbxFindEntry, SameName, NewlyNames
  <2>4. QED
    BY <1>2, <2>1, <2>2, <2>3
<1>3. OneEntryPerPath'
  BY <1>2 DEF OneEntryPerPath, OkVolume, FbxFindEntry
<1>4. EntryKeepsObject'
  <2> SUFFICES ASSUME NEW x \in Entry, currvol # NULL, entry'[x].vol = currvol
               PROVE  /\ tree'[entry'[x].path].type = entry'[x].type
                      /\ entry'[x].diskkey # NULL
                           => tree'[entry'[x].path].ino = entry'[x].diskkey
    BY DEF EntryKeepsObject, OkVolume
  <2>1. CASE SameName(x)
    BY <2>1 DEF NamesInv, EntryKeepsObject, OkVolume, SameName
  <2>2. CASE x = e /\ NewlyNames(e, p)
    BY <2>2 DEF NewlyNames
  <2>3. QED
    BY <2>1, <2>2
<1>5. QED
  BY <1>1, <1>3, <1>4 DEF NamesInv

\* The same for a step that leaves the tree alone.
LEMMA NamesKeptOnTree ==
  ASSUME NamesInv, UNCHANGED <<tree, currvol>>,
         volumelist \cup freed \subseteq volumelist' \cup freed',
         NEW e, NEW p,
         \A x \in Entry : \/ entry'[x].vol = NULL
                          \/ SameName(x)
                          \/ x = e /\ NewlyNames(e, p)
  PROVE  NamesInv'
BY NamesKept DEF NamesInv, ClosedTree

\* FbxLockEntry, FbxEndLock and FbxCleanupEntry do not touch a name.
LEMMA LockingKeepsName ==
  ASSUME entry \in [Entry -> EntryRecord], NEW l, NEW e \in Entry,
         NEW rec \in EntryRecord, NEW mode, NEW opened,
         \/ FbxLockEntry(l, e, rec, mode, opened)
         \/ LockEntryFails(e, rec)
         \/ OpenLockFails(e, rec, mode)
         \/ entry' = FbxCleanupEntry([entry EXCEPT ![e] = rec], lock, notify', e)
  PROVE  /\ \A x \in Entry : x # e => entry'[x] = entry[x]
         /\ \/ entry'[e] = NoEntry
            \/ /\ entry'[e].vol = rec.vol /\ entry'[e].path = rec.path
               /\ entry'[e].type = rec.type /\ entry'[e].diskkey = rec.diskkey
<1> DEFINE lk == Locked(rec, mode)
<1>1. /\ lk.vol = rec.vol /\ lk.path = rec.path
      /\ lk.type = rec.type /\ lk.diskkey = rec.diskkey
  BY DEF Locked, EntryRecord
<1> HIDE DEF lk
<1>2. \/ entry' = [entry EXCEPT ![e] = lk]
      \/ entry' = [entry EXCEPT ![e] = rec]
      \/ entry' = [[entry EXCEPT ![e] = rec] EXCEPT ![e] = NoEntry]
      \/ entry' = [[entry EXCEPT ![e] = lk] EXCEPT ![e] = NoEntry]
  BY DEF FbxLockEntry, LockEntryFails, OpenLockFails, FbxCleanupEntry, lk
<1>3. QED
  BY <1>1, <1>2

LEMMA NamesOfLookup ==
  ASSUME IInv, NamesInv, currvol \in Volume, NEW e \in Entry, NEW p \in Path,
         EntryFor(e, p), NEW type, NEW ino, NEW l, NEW mode, NEW opened, NEW rec,
         rec = Looked(e, p, type, ino), rec \in EntryRecord,
         type = tree[p].type, ino = tree[p].ino,
         \/ FbxLockEntry(l, e, rec, mode, opened)
         \/ LockEntryFails(e, rec)
         \/ OpenLockFails(e, rec, mode)
         \/ entry' = [entry EXCEPT ![e] = rec],
         UNCHANGED <<tree, volumes>>
  PROVE  NamesInv'
<1>1. entry \in [Entry -> EntryRecord]
  BY DEF IInv, TypeOK
<1>2. /\ \A x \in Entry : x # e => entry'[x] = entry[x]
      /\ \/ entry'[e] = NoEntry
         \/ /\ entry'[e].vol = rec.vol /\ entry'[e].path = rec.path
            /\ entry'[e].type = rec.type /\ entry'[e].diskkey = rec.diskkey
  <2>1. CASE \/ FbxLockEntry(l, e, rec, mode, opened)
             \/ LockEntryFails(e, rec)
             \/ OpenLockFails(e, rec, mode)
    BY <1>1, <2>1, LockingKeepsName
  <2>2. CASE entry' = [entry EXCEPT ![e] = rec]
    BY <1>1, <2>2
  <2>3. QED
    BY <2>1, <2>2
<1>3. CASE FbxFindEntry(p) = {}
  <2>1. rec = FbxSetupEntry(p, type, ino)
    BY <1>3 DEF Looked
  <2>2. /\ rec.vol = currvol /\ rec.path = p /\ rec.type = tree[p].type
        /\ rec.diskkey # NULL => rec.diskkey = tree[p].ino
    BY <2>1 DEF FbxSetupEntry
  <2>3. entry'[e].vol = NULL \/ NewlyNames(e, p)
    BY <1>2, <1>3, <2>2 DEF NewlyNames, NoEntry
  <2>4. \A x \in Entry : \/ entry'[x].vol = NULL
                         \/ SameName(x)
                         \/ x = e /\ NewlyNames(e, p)
    BY <1>2, <2>3 DEF SameName
  <2>5. QED
    BY <2>4, NamesKeptOnTree DEF volumes
<1>4. CASE FbxFindEntry(p) # {}
  <2>1. rec = entry[e]
    BY <1>4 DEF Looked
  <2>2. \A x \in Entry : \/ entry'[x].vol = NULL
                         \/ SameName(x)
                         \/ x = e /\ NewlyNames(e, p)
    BY <1>2, <2>1 DEF SameName, NoEntry
  <2>3. QED
    BY <2>2, NamesKeptOnTree DEF volumes
<1>5. QED
  BY <1>3, <1>4

-----------------------------------------------------------------------------
(* One lemma for each kind of step *)

LEMMA LocateNames ==
  ASSUME IInv, NamesInv, NEW p \in Path, NEW mode \in Access, NEW l \in Lock,
         NEW e \in Entry, FbxLocateObject(p, mode, l, e)
  PROVE  NamesInv'
<1> DEFINE rec == Looked(e, p, tree[p].type, tree[p].ino)
<1>1. /\ currvol \in Volume /\ EntryFor(e, p) /\ UNCHANGED <<tree, volumes>>
      /\ FbxLockEntry(l, e, rec, mode, FALSE) \/ LockEntryFails(e, rec)
  BY DEF FbxLocateObject, OkVolume, IInv, TypeOK, backend
<1>2. rec \in EntryRecord
  BY <1>1, LookedType, TreeType DEF FbxLocateObject, IInv
<1>3. QED
  BY <1>1, <1>2, NamesOfLookup

LEMMA DupNames ==
  ASSUME IInv, NamesInv, NEW l \in Lock, NEW new \in Lock, FbxDupLock(l, new)
  PROVE  NamesInv'
<1> DEFINE e == lock[l].entry
<1>1. /\ UNCHANGED <<tree, volumes>>
      /\ FbxLockEntry(new, e, entry[e], SHARED_LOCK, FALSE)
  BY DEF FbxDupLock, backend
<1>2. e \in Entry /\ entry \in [Entry -> EntryRecord]
  BY OnCurrentEntry DEF FbxDupLock, IInv, TypeOK
<1> DEFINE rec == entry[e]
<1>0. rec \in EntryRecord /\ FbxLockEntry(new, e, rec, SHARED_LOCK, FALSE)
  BY <1>1, <1>2
<1>3. /\ \A x \in Entry : x # e => entry'[x] = entry[x]
      /\ \/ entry'[e] = NoEntry
         \/ /\ entry'[e].vol = rec.vol /\ entry'[e].path = rec.path
            /\ entry'[e].type = rec.type /\ entry'[e].diskkey = rec.diskkey
  <2> HIDE DEF rec
  <2>1. QED
    BY <1>0, <1>2, LockingKeepsName
<1>4. \A x \in Entry : entry'[x].vol = NULL \/ SameName(x)
  BY <1>3 DEF SameName, NoEntry
<1>5. QED
  BY <1>1, <1>4, NamesKeptOnTree DEF volumes

LEMMA LocateParentNames ==
  ASSUME IInv, NamesInv, NEW l \in Lock, NEW new \in Lock, NEW e \in Entry,
         FbxLocateParent(l, new, e)
  PROVE  NamesInv'
<1> DEFINE p == entry[lock[l].entry].path
<1>1. lock[l].entry \in Entry
  BY OnCurrentEntry DEF FbxLocateParent
<1>2. p \in Path /\ p # Root
  BY <1>1 DEF FbxLocateParent, IInv, TypeOK, EntryRecord
<1>3. Front(p) \in Path /\ FbxLocateObject(Front(p), SHARED_LOCK, new, e)
  BY <1>2, FrontIsParent DEF FbxLocateParent
<1>4. QED
  BY <1>3, LocateNames DEF Access

\* An object is made at p, where there is neither an object nor an entry; the
\* entry set up for it, if any, is the only one.
LEMMA MakeNames ==
  ASSUME IInv, NamesInv, currvol \in Volume, NEW p \in Path, NEW n,
         p # Root, ~Exists(p), tree[Front(p)].type = "dir",
         FbxFindEntry(p) = {}, tree' = [tree EXCEPT ![p] = n],
         UNCHANGED volumes, NEW e,
         \A x \in Entry : \/ entry'[x].vol = NULL
                          \/ SameName(x)
                          \/ x = e /\ NewlyNames(e, p)
  PROVE  NamesInv'
<1>1. ClosedTree(tree') /\ \A x \in Path : Exists(x) => tree'[x] = tree[x]
  BY MakeCloses DEF IInv, NamesInv
<1>2. \A x \in Entry : entry[x].vol = currvol
        => entry[x].path \in Path /\ Exists(entry[x].path)
  BY NullOutside DEF IInv, TypeOK, EntryRecord, NamesInv, EntryKeepsObject, OkVolume, Exists
<1>3. QED
  BY <1>1, <1>2, NamesKept DEF volumes

\* The entry set up for a new object, after all that may happen to it.
LEMMA NewEntryNames ==
  ASSUME IInv, currvol \in Volume, NEW e \in Entry, NEW p \in Path,
         NEW type \in {"file", "dir"}, NEW key \in Inode \cup {NULL},
         FbxFindEntry(p) = {},
         tree'[p].type = type, key # NULL => tree'[p].ino = key,
         NEW l, NEW mode, NEW opened, NEW rec, rec = FbxSetupEntry(p, type, key),
         \/ FbxLockEntry(l, e, rec, mode, opened)
         \/ entry' = FbxCleanupEntry([entry EXCEPT ![e] = rec], lock, notify', e)
  PROVE  \A x \in Entry : \/ entry'[x].vol = NULL
                          \/ SameName(x)
                          \/ x = e /\ NewlyNames(e, p)
<1>1. rec \in EntryRecord /\ entry \in [Entry -> EntryRecord]
  BY LookedType DEF IInv, TypeOK
<1>2. /\ \A x \in Entry : x # e => entry'[x] = entry[x]
      /\ \/ entry'[e] = NoEntry
         \/ /\ entry'[e].vol = rec.vol /\ entry'[e].path = rec.path
            /\ entry'[e].type = rec.type /\ entry'[e].diskkey = rec.diskkey
  BY <1>1, LockingKeepsName
<1>3. /\ rec.vol = currvol /\ rec.path = p /\ rec.type = type
      /\ rec.diskkey # NULL => rec.diskkey = key
  BY DEF FbxSetupEntry
<1>4. entry'[e].vol = NULL \/ NewlyNames(e, p)
  BY <1>2, <1>3 DEF NewlyNames, NoEntry
<1>5. QED
  BY <1>2, <1>4 DEF SameName

LEMMA CreateDirNames ==
  ASSUME IInv, NamesInv, NEW p \in Path, NEW ino \in Inode, NEW l \in Lock,
         NEW e \in Entry, FbxCreateDir(p, ino, l, e)
  PROVE  NamesInv'
<1> DEFINE rec == FbxSetupEntry(p, "dir", ino)
<1>1. /\ currvol \in Volume /\ UNCHANGED volumes
      /\ tree' = [tree EXCEPT ![p] = [type |-> "dir", ino |-> ino]]
      /\ p # Root /\ ~Exists(p) /\ tree[Front(p)].type = "dir"
      /\ FbxFindEntry(p) = {}
  BY DEF FbxCreateDir, CanCreate, OkVolume, IInv, TypeOK
<1>2. tree'[p].type = "dir" /\ tree'[p].ino = ino
  BY <1>1 DEF IInv, TypeOK, Tree
<1>3. \A x \in Entry : \/ entry'[x].vol = NULL
                       \/ SameName(x)
                       \/ x = e /\ NewlyNames(e, p)
  <2>1. CASE UNCHANGED entry
    BY <2>1 DEF SameName
  <2>2. CASE \/ FbxLockEntry(l, e, rec, SHARED_LOCK, FALSE)
             \/ entry' = FbxCleanupEntry([entry EXCEPT ![e] = rec], lock, notify', e)
    BY <1>1, <1>2, <2>2, NewEntryNames
  <2>3. QED
    BY <2>1, <2>2 DEF FbxCreateDir
<1>4. QED
  BY <1>1, <1>3, MakeNames

LEMMA OpenExistingNames ==
  ASSUME IInv, NamesInv, NEW p \in Path, NEW mode \in OpenMode, NEW l \in Lock,
         NEW e \in Entry, OpenExisting(p, mode, l, e)
  PROVE  NamesInv'
<1> DEFINE rec == Looked(e, p, "file", tree[p].ino)
           lm  == OpenLockMode(mode)
<1>1. /\ currvol \in Volume /\ EntryFor(e, p) /\ UNCHANGED <<tree, volumes>>
      /\ tree[p].type = "file"
      /\ \/ FbxLockEntry(l, e, rec, lm, TRUE)
         \/ LockEntryFails(e, rec)
         \/ OpenLockFails(e, rec, lm)
  BY DEF OpenExisting, OkVolume, IInv, TypeOK, backend
<1>2. rec \in EntryRecord
  BY <1>1, LookedType, TreeType DEF IInv
<1>3. QED
  BY <1>1, <1>2, NamesOfLookup

LEMMA OpenCreateNames ==
  ASSUME IInv, NamesInv, NEW p \in Path, NEW mode \in OpenMode, NEW ino \in Inode,
         NEW l \in Lock, NEW e \in Entry, OpenCreate(p, mode, ino, l, e)
  PROVE  NamesInv'
<1> DEFINE key == IF HasMknod THEN ino ELSE NULL
           rec == FbxSetupEntry(p, "file", key)
           lm  == OpenLockMode(mode)
<1>1. /\ currvol \in Volume /\ UNCHANGED volumes
      /\ tree' = [tree EXCEPT ![p] = [type |-> "file", ino |-> ino]]
      /\ p # Root /\ ~Exists(p) /\ tree[Front(p)].type = "dir"
      /\ FbxFindEntry(p) = {}
  BY DEF OpenCreate, CanCreate, OkVolume, IInv, TypeOK
<1>2. tree'[p].type = "file" /\ tree'[p].ino = ino
  BY <1>1 DEF IInv, TypeOK, Tree
<1>3. \A x \in Entry : \/ entry'[x].vol = NULL
                       \/ SameName(x)
                       \/ x = e /\ NewlyNames(e, p)
  <2>1. CASE UNCHANGED entry
    BY <2>1 DEF SameName
  <2>2. CASE FbxLockEntry(l, e, rec, lm, TRUE)
    <3>1. key \in Inode \cup {NULL} /\ (key # NULL => tree'[p].ino = key)
      BY <1>2
    <3> HIDE DEF key
    <3>2. QED
      BY <1>1, <1>2, <2>2, <3>1, NewEntryNames
  <2>3. QED
    BY <2>1, <2>2 DEF OpenCreate
<1>4. QED
  BY <1>1, <1>3, MakeNames

LEMMA ReleaseNames ==
  ASSUME IInv, NamesInv, NEW l \in Lock, lock[l].entry # NULL, EndLockAndCleanup(l),
         UNCHANGED backend
  PROVE  NamesInv'
<1>1. UNCHANGED <<tree, currvol>> /\ volumelist \cup freed \subseteq volumelist' \cup freed'
  BY DEF EndLockAndCleanup, FbxEndLock, backend
<1>2. \A x \in Entry : entry'[x].vol = NULL \/ SameName(x)
  BY DEF EndLockAndCleanup, FbxCleanupEntry, SameName, NoEntry, IInv, TypeOK
<1>3. QED
  BY <1>1, <1>2, NamesKeptOnTree

LEMMA ChangeModeNames ==
  ASSUME IInv, NamesInv, NEW l \in Lock, NEW mode \in Access, FbxChangeMode(l, mode)
  PROVE  NamesInv'
<1>1. UNCHANGED <<tree, volumes>>
  BY DEF FbxChangeMode, backend
<1>2. \A x \in Entry : SameName(x)
  <2>1. \A x \in Entry : entry[x] \in EntryRecord
    BY DEF IInv, TypeOK
  <2>2. CASE UNCHANGED entry
    BY <2>2 DEF SameName
  <2>3. CASE entry' = [entry EXCEPT ![lock[l].entry].xlock = (mode = EXCLUSIVE_LOCK)]
    BY <2>1, <2>3 DEF SameName, EntryRecord, IInv, TypeOK
  <2>4. QED
    BY <2>2, <2>3 DEF FbxChangeMode
<1>3. QED
  BY <1>1, <1>2, NamesKeptOnTree DEF volumes

\* No entry is left behind for the next object of that name.
LEMMA DeleteNames ==
  ASSUME IInv, NamesInv, NEW p \in Path, FbxDeleteObject(p)
  PROVE  NamesInv'
<1>1. /\ UNCHANGED <<volumes, lock>> /\ CanRemove(p) /\ currvol # NULL
      /\ tree' = [tree EXCEPT ![p] = NoNode]
      /\ entry \in [Entry -> EntryRecord] /\ notify \in [Request -> NotifyRecord]
  BY DEF FbxDeleteObject, OkVolume, IInv, TypeOK
<1>2. ClosedTree(tree') /\ \A x \in Path : x # p => tree'[x] = tree[x]
  BY <1>1, RemoveCloses DEF IInv, NamesInv
<1>3. /\ \A x \in Entry : entry'[x].vol = NULL \/ SameName(x)
      /\ \A x \in FbxFindEntry(p) : entry'[x].vol = NULL
  <2>1. CASE FbxFindEntry(p) = {} /\ UNCHANGED entry
    BY <2>1 DEF SameName
  <2>2. ASSUME NEW e \in FbxFindEntry(p), LockList(e) = {},
               notify' = FbxUnResolveNotifys(e),
               entry' = FbxCleanupEntry(entry, lock, notify', e)
        PROVE  /\ \A x \in Entry : entry'[x].vol = NULL \/ SameName(x)
               /\ \A x \in FbxFindEntry(p) : entry'[x].vol = NULL
    <3>1. e \in Entry /\ \A x \in FbxFindEntry(p) : x = e
      BY <1>1 DEF FbxFindEntry, NamesInv, OneEntryPerPath, OkVolume
    <3>2. \A l \in Lock : lock[l].entry # e
      BY <2>2 DEF LockList
    <3>3. \A n \in Request : notify'[n].entry # e
      BY <1>1, <2>2, <3>1, UnResolved, NullOutside
    <3>4. entry' = [entry EXCEPT ![e] = NoEntry]
      BY <2>2, <3>2, <3>3 DEF FbxCleanupEntry
    <3>5. QED
      BY <1>1, <3>1, <3>4 DEF SameName, NoEntry
  <2>3. QED
    BY <2>1, <2>2 DEF FbxDeleteObject
<1>4. \A x \in Entry : entry[x].vol = currvol /\ entry'[x].vol # NULL
        => tree'[entry[x].path] = tree[entry[x].path]
  BY <1>1, <1>2, <1>3 DEF FbxFindEntry, EntryRecord
<1>5. QED
  BY <1>1, <1>2, <1>3, <1>4, NamesKept DEF volumes

\* FbxUpdatePaths and the new path of the object's own entry: every entry of
\* the volume has the new name of its object, and nothing else changes.
LEMMA RenamedEntries ==
  ASSUME IInv, NamesInv, NEW p \in Path, NEW q \in Path, FbxRenameObject(p, q)
  PROVE  \A x \in Entry :
           /\ entry'[x].vol = entry[x].vol
           /\ entry'[x].type = entry[x].type /\ entry'[x].diskkey = entry[x].diskkey
           /\ entry[x].vol = currvol =>
                /\ entry'[x].path = NewName(p, q, entry[x].path)
                /\ entry'[x].path \in Path
<1>1. /\ currvol # NULL /\ entry \in [Entry -> EntryRecord]
      /\ \A x \in Entry : entry[x].path \in Path
      /\ ~FbxIsParent(p, q)
      /\ p \in Seq(STRING) /\ q \in Seq(STRING)
  BY PathsAreSequences DEF FbxRenameObject, OkVolume, IInv, TypeOK, EntryRecord
<1>2. \A x \in Entry : entry[x].vol = currvol /\ FbxIsParent(p, entry[x].path)
        => Rebase(p, q, entry[x].path) \in Path
  <2>1. \A x \in Entry : entry[x].vol = currvol
                          => FbxFindEntry(entry[x].path) # {}
    BY DEF FbxFindEntry
  <2>2. QED
    BY <1>1, <2>1 DEF FbxRenameObject
<1>3. Rebase(p, q, p) = q /\ ~FbxIsParent(p, p)
  BY <1>1, RebaseMoves, ParentOrder
<1>4. ASSUME NEW entries \in [Entry -> EntryRecord],
             entry' = FbxUpdatePaths(entries, p, q), NEW x \in Entry
      PROVE  /\ entry'[x].vol = entries[x].vol
             /\ entry'[x].type = entries[x].type
             /\ entry'[x].diskkey = entries[x].diskkey
             /\ entry'[x].path = IF entries[x].vol = currvol /\ FbxIsParent(p, entries[x].path)
                                 THEN Rebase(p, q, entries[x].path) ELSE entries[x].path
  <2> DEFINE moved == [entries[x] EXCEPT !.path = Rebase(p, q, entries[x].path)]
  <2>1. entry'[x] = IF entries[x].vol = currvol /\ FbxIsParent(p, entries[x].path)
                    THEN moved ELSE entries[x]
    BY <1>4 DEF FbxUpdatePaths
  <2>2. /\ moved.vol = entries[x].vol /\ moved.type = entries[x].type
        /\ moved.diskkey = entries[x].diskkey
        /\ moved.path = Rebase(p, q, entries[x].path)
    BY <1>4 DEF EntryRecord
  <2>3. QED
    BY <2>1, <2>2
<1>5. CASE FbxFindEntry(p) = {} /\ entry' = FbxUpdatePaths(entry, p, q)
  <2> SUFFICES ASSUME NEW x \in Entry
               PROVE  /\ entry'[x].vol = entry[x].vol
                      /\ entry'[x].type = entry[x].type
                      /\ entry'[x].diskkey = entry[x].diskkey
                      /\ entry[x].vol = currvol =>
                           /\ entry'[x].path = NewName(p, q, entry[x].path)
                           /\ entry'[x].path \in Path
    OBVIOUS
  <2>1. /\ entry'[x].vol = entry[x].vol /\ entry'[x].type = entry[x].type
        /\ entry'[x].diskkey = entry[x].diskkey
        /\ entry'[x].path = IF entry[x].vol = currvol /\ FbxIsParent(p, entry[x].path)
                            THEN Rebase(p, q, entry[x].path) ELSE entry[x].path
    BY <1>1, <1>4, <1>5
  <2>2. entry[x].vol = currvol => entry[x].path # p
    BY <1>5 DEF FbxFindEntry
  <2>3. QED
    BY <1>1, <1>2, <2>1, <2>2 DEF NewName
<1>6. ASSUME NEW e \in FbxFindEntry(p),
             entry' = FbxUpdatePaths([entry EXCEPT ![e].path = q], p, q), NEW x \in Entry
      PROVE  /\ entry'[x].vol = entry[x].vol
             /\ entry'[x].type = entry[x].type
             /\ entry'[x].diskkey = entry[x].diskkey
             /\ entry[x].vol = currvol =>
                  /\ entry'[x].path = NewName(p, q, entry[x].path)
                  /\ entry'[x].path \in Path
  <2> DEFINE mid == [entry EXCEPT ![e].path = q]
  <2>1. e \in Entry /\ entry[e].vol = currvol /\ entry[e].path = p
    BY DEF FbxFindEntry
  <2>2. /\ mid \in [Entry -> EntryRecord]
        /\ mid[e].vol = currvol /\ mid[e].path = q
        /\ mid[e].type = entry[e].type /\ mid[e].diskkey = entry[e].diskkey
        /\ \A y \in Entry : y # e => mid[y] = entry[y]
    BY <1>1, <2>1 DEF EntryRecord
  <2>3. entry' = FbxUpdatePaths(mid, p, q)
    BY <1>6
  <2> HIDE DEF mid
  <2>4. /\ entry'[x].vol = mid[x].vol /\ entry'[x].type = mid[x].type
        /\ entry'[x].diskkey = mid[x].diskkey
        /\ entry'[x].path = IF mid[x].vol = currvol /\ FbxIsParent(p, mid[x].path)
                            THEN Rebase(p, q, mid[x].path) ELSE mid[x].path
    BY <1>4, <2>2, <2>3
  <2>5. CASE x = e
    BY <1>1, <1>3, <2>1, <2>2, <2>4, <2>5 DEF NewName
  <2>6. CASE x # e
    <3>1. entry[x].vol = currvol => entry[x].path # p
      BY <1>1, <2>1, <2>6 DEF FbxFindEntry, NamesInv, OneEntryPerPath, OkVolume
    <3>2. QED
      BY <1>1, <1>2, <2>2, <2>4, <2>6, <3>1 DEF NewName
  <2>7. QED
    BY <2>5, <2>6
<1>7. QED
  BY <1>5, <1>6 DEF FbxRenameObject

\* The tree and the entries are renamed alike.
LEMMA RenameNames ==
  ASSUME IInv, NamesInv, NEW p \in Path, NEW q \in Path, FbxRenameObject(p, q)
  PROVE  NamesInv'
<1>1. /\ currvol # NULL /\ UNCHANGED volumes
      /\ q # Root /\ ~FbxIsParent(p, q) /\ CanMove(p, q)
      /\ p # q => ~Exists(q)
      /\ tree' = IF p = q THEN tree ELSE MovedTree(p, q)
  BY DEF FbxRenameObject, TargetFree, OkVolume
<1>2. /\ ClosedTree(tree')
      /\ \A x \in Path : Exists(x) /\ NewName(p, q, x) \in Path
           => tree'[NewName(p, q, x)] = tree[x]
      /\ \A x, y \in Path : Exists(x) /\ Exists(y) /\ NewName(p, q, x) = NewName(p, q, y)
           => x = y
  <2>1. CASE p # q
    <3>1. tree' = MovedTree(p, q) /\ ~Exists(q)
      BY <1>1, <2>1
    <3>2. QED
      BY <1>1, <2>1, <3>1, MoveCloses DEF IInv, NamesInv
  <2>2. CASE p = q
    <3>1. \A x \in Path : NewName(p, q, x) = x
      BY <2>2, RebaseMoves, PathsAreSequences DEF NewName
    <3>2. QED
      BY <1>1, <2>2, <3>1 DEF NamesInv, ClosedTree
  <2>3. QED
    BY <2>1, <2>2
<1>3. \A x \in Entry :
        /\ entry'[x].vol = entry[x].vol
        /\ entry'[x].type = entry[x].type /\ entry'[x].diskkey = entry[x].diskkey
        /\ entry[x].vol = currvol =>
             /\ entry'[x].path = NewName(p, q, entry[x].path)
             /\ entry'[x].path \in Path
  BY RenamedEntries
<1>4. \A x \in Entry : entry[x].vol = currvol
        => entry[x].path \in Path /\ Exists(entry[x].path)
  BY <1>1 DEF IInv, TypeOK, EntryRecord, NamesInv, EntryKeepsObject, OkVolume, Exists
<1>5. VolumesKnown'
  BY <1>1, <1>3 DEF NamesInv, VolumesKnown, volumes
<1>6. OneEntryPerPath'
  <2> SUFFICES ASSUME NEW x \in Entry, NEW y \in Entry,
                      entry'[x].vol = currvol, entry'[y].vol = currvol,
                      entry'[x].path = entry'[y].path
               PROVE  x = y
    BY <1>1 DEF OneEntryPerPath, OkVolume, FbxFindEntry, volumes
  <2>1. /\ entry[x].vol = currvol /\ entry[y].vol = currvol
        /\ entry[x].path \in Path /\ entry[x].path = entry[y].path
    BY <1>2, <1>3, <1>4
  <2>2. x \in FbxFindEntry(entry[x].path) /\ y \in FbxFindEntry(entry[x].path)
    BY <2>1 DEF FbxFindEntry
  <2>3. QED
    BY <1>1, <2>1, <2>2 DEF NamesInv, OneEntryPerPath, OkVolume
<1>7. EntryKeepsObject'
  <2> SUFFICES ASSUME NEW x \in Entry, entry'[x].vol = currvol
               PROVE  /\ tree'[entry'[x].path].type = entry'[x].type
                      /\ entry'[x].diskkey # NULL
                           => tree'[entry'[x].path].ino = entry'[x].diskkey
    BY <1>1 DEF EntryKeepsObject, OkVolume, volumes
  <2>1. entry[x].vol = currvol /\ tree'[entry'[x].path] = tree[entry[x].path]
    BY <1>2, <1>3, <1>4
  <2>2. QED
    BY <1>1, <1>3, <2>1 DEF NamesInv, EntryKeepsObject, OkVolume
<1>8. QED
  BY <1>2, <1>5, <1>6, <1>7 DEF NamesInv

LEMMA HardLinkNames ==
  ASSUME IInv, NamesInv, NEW p \in Path, NEW l \in Lock, FbxMakeHardLink(p, l)
  PROVE  NamesInv'
<1> DEFINE n == tree[entry[lock[l].entry].path]
<1>1. /\ currvol \in Volume
      /\ p # Root /\ ~Exists(p) /\ tree[Front(p)].type = "dir"
      /\ tree' = [tree EXCEPT ![p] = n]
      /\ UNCHANGED volumes /\ UNCHANGED entry
  BY DEF FbxMakeHardLink, CanLink, OnCurrent, OkVolume, IInv, TypeOK
<1>2. FbxFindEntry(p) = {}
  BY <1>1, NullOutside DEF IInv, TypeOK, EntryRecord, NamesInv, EntryKeepsObject, OkVolume,
     Exists, FbxFindEntry
<1>3. \A x \in Entry : SameName(x)
  BY <1>1 DEF SameName
<1>4. QED
  BY <1>1, <1>2, <1>3, MakeNames

LEMMA AddNotifyNames ==
  ASSUME IInv, NamesInv, NEW n \in Request, NEW p \in Path, NEW e \in Entry,
         FbxAddNotify(n, p, e)
  PROVE  NamesInv'
<1> DEFINE rec == Looked(e, p, tree[p].type, tree[p].ino)
<1>1. /\ currvol \in Volume /\ EntryFor(e, p) /\ UNCHANGED <<tree, volumes>>
      /\ entry' = [entry EXCEPT ![e] = rec]
  BY DEF FbxAddNotify, OkVolume, IInv, TypeOK, backend
<1>2. rec \in EntryRecord
  BY <1>1, LookedType, TreeType DEF FbxAddNotify, IInv
<1>3. QED
  BY <1>1, <1>2, NamesOfLookup

LEMMA RemoveNotifyNames ==
  ASSUME IInv, NamesInv, NEW n \in Request, FbxRemoveNotify(n)
  PROVE  NamesInv'
<1>1. UNCHANGED <<tree, volumes>>
  BY DEF FbxRemoveNotify, backend
<1>2. \A x \in Entry : entry'[x].vol = NULL \/ SameName(x)
  BY DEF FbxRemoveNotify, FbxCleanupEntry, SameName, NoEntry, IInv, TypeOK
<1>3. QED
  BY <1>1, <1>2, NamesKeptOnTree DEF volumes

\* No entry is left over from a volume that had the same address.
LEMMA SetupVolumeNames ==
  ASSUME IInv, NamesInv, NEW vol \in Volume, NEW disk \in Disk, NEW ro \in Protection,
         FbxSetupVolume(vol, disk, ro)
  PROVE  NamesInv'
<1>1. /\ currvol = NULL /\ currvol' = vol /\ vol # NULL
      /\ vol \notin volumelist \cup freed
      /\ tree' = disk /\ UNCHANGED <<volumelist, freed, entry>>
  BY NullOutside DEF FbxSetupVolume, OkVolume
<1>2. \A x \in Entry : entry[x].vol # vol
  BY <1>1 DEF NamesInv, VolumesKnown
<1>3. ClosedTree(tree')
  BY <1>1, DiskAssumption
<1>4. VolumesKnown'
  BY <1>1 DEF NamesInv, VolumesKnown
<1>5. OneEntryPerPath' /\ EntryKeepsObject'
  BY <1>1, <1>2 DEF OneEntryPerPath, FbxFindEntry, EntryKeepsObject
<1>6. QED
  BY <1>3, <1>4, <1>5 DEF NamesInv

LEMMA UnmountNames ==
  ASSUME IInv, NamesInv, FbxCleanupVolume \/ FbxDie
  PROVE  NamesInv'
<1>1. /\ UNCHANGED tree /\ currvol' = NULL
      /\ volumelist \cup freed \cup {currvol}
           \subseteq volumelist' \cup freed' \cup {NULL}
      /\ \A x \in Entry : entry'[x] = entry[x] \/ entry'[x] = NoEntry
  BY DEF FbxCleanupVolume, FbxDie, backend
<1>2. VolumesKnown'
  BY <1>1 DEF NamesInv, VolumesKnown, NoEntry
<1>3. OneEntryPerPath' /\ EntryKeepsObject'
  BY <1>1 DEF OneEntryPerPath, EntryKeepsObject, OkVolume
<1>4. QED
  BY <1>1, <1>2, <1>3 DEF NamesInv, ClosedTree

LEMMA InitNames == Init => NamesInv
BY DiskAssumption DEF Init, NamesInv, VolumesKnown, OneEntryPerPath, EntryKeepsObject,
   OkVolume, NoEntry

LEMMA NextNames ==
  ASSUME IInv, NamesInv, Next
  PROVE  NamesInv'
<1>1. ASSUME NEW p \in Path, NEW l \in Lock, NEW e \in Entry,
             NEW mode \in {SHARED_LOCK, EXCLUSIVE_LOCK},
             FbxLocateObject(p, mode, l, e)
      PROVE  NamesInv'
  BY <1>1, LocateNames DEF Access
<1>2. ASSUME NEW p \in Path, NEW l \in Lock, NEW e \in Entry, NEW ino \in Inode,
             FbxCreateDir(p, ino, l, e)
      PROVE  NamesInv'
  BY <1>2, CreateDirNames
<1>3. ASSUME NEW p \in Path, NEW l \in Lock, NEW e \in Entry,
             NEW mode \in OpenMode, NEW ino \in Inode,
             FbxOpenFile(p, mode, ino, l, e)
      PROVE  NamesInv'
  BY <1>3, OpenExistingNames, OpenCreateNames DEF FbxOpenFile
<1>4. ASSUME NEW l \in Lock, NEW new \in Lock, FbxDupLock(l, new)
      PROVE  NamesInv'
  BY <1>4, DupNames
<1>5. ASSUME NEW l \in Lock, NEW new \in Lock, NEW e \in Entry,
             FbxLocateParent(l, new, e)
      PROVE  NamesInv'
  BY <1>5, LocateParentNames
<1>6. ASSUME NEW l \in Lock, FbxCloseFile(l) \/ FbxUnLockObject(l)
      PROVE  NamesInv'
  BY <1>6, ReleaseNames DEF FbxCloseFile, FbxUnLockObject
<1>7. ASSUME NEW l \in Lock, NEW mode \in Access, FbxChangeMode(l, mode)
      PROVE  NamesInv'
  BY <1>7, ChangeModeNames
<1>8. ASSUME NEW p \in Path, FbxDeleteObject(p)
      PROVE  NamesInv'
  BY <1>8, DeleteNames
<1>9. ASSUME NEW p \in Path, NEW l \in Lock, FbxMakeHardLink(p, l)
      PROVE  NamesInv'
  BY <1>9, HardLinkNames
<1>10. ASSUME NEW p \in Path, NEW q \in Path, FbxRenameObject(p, q)
       PROVE  NamesInv'
  BY <1>10, RenameNames
<1>11. ASSUME NEW n \in Request, NEW p \in Path, NEW e \in Entry,
              FbxAddNotify(n, p, e)
       PROVE  NamesInv'
  BY <1>11, AddNotifyNames
<1>12. ASSUME NEW n \in Request, FbxRemoveNotify(n)
       PROVE  NamesInv'
  BY <1>12, RemoveNotifyNames
<1>13. ASSUME NEW vol \in Volume, NEW disk \in Disk, NEW ro \in Protection,
              FbxSetupVolume(vol, disk, ro)
       PROVE  NamesInv'
  BY <1>13, SetupVolumeNames
<1>14. CASE FbxCleanupVolume \/ FbxDie
  BY <1>14, UnmountNames
<1>15. ASSUME UNCHANGED <<tree, entry, volumes>>
       PROVE  NamesInv'
  BY <1>15, NamesKeptOnTree DEF SameName, volumes
<1>16. \A l \in Lock : FbxOpenFromLock(l) => NamesInv'
  BY <1>15 DEF FbxOpenFromLock, backend
<1>17. \A on \in Protection : FbxWriteProtect(on) => NamesInv'
  BY <1>15 DEF FbxWriteProtect
<1>18. QED
  BY <1>1, <1>2, <1>3, <1>4, <1>5, <1>6, <1>7, <1>8, <1>9, <1>10, <1>11, <1>12,
     <1>13, <1>14, <1>16, <1>17
  DEF Next

LEMMA StutterNames ==
  ASSUME NamesInv, UNCHANGED vars
  PROVE  NamesInv'
BY NamesKeptOnTree DEF SameName, vars

-----------------------------------------------------------------------------
(* The specification *)

LEMMA StutterSafe ==
  ASSUME IInv, UNCHANGED vars
  PROVE  IInv'
<1>1. UNCHANGED <<tree, readonly, writeprotect, volumes, entry, lock, notify>>
  BY DEF vars, volumes
<1>2. QED
  BY <1>1, TablesStay DEF IInv, TypeOK, volumes

LEMMA NextSafe ==
  ASSUME IInv, Next
  PROVE  IInv'
<1>1. ASSUME NEW p \in Path, NEW l \in Lock, NEW e \in Entry,
             NEW mode \in {SHARED_LOCK, EXCLUSIVE_LOCK},
             FbxLocateObject(p, mode, l, e)
      PROVE  IInv'
  BY <1>1, LocateSafe DEF Access
<1>2. ASSUME NEW p \in Path, NEW l \in Lock, NEW e \in Entry, NEW ino \in Inode,
             FbxCreateDir(p, ino, l, e)
      PROVE  IInv'
  BY <1>2, CreateDirSafe
<1>3. ASSUME NEW p \in Path, NEW l \in Lock, NEW e \in Entry,
             NEW mode \in OpenMode, NEW ino \in Inode,
             FbxOpenFile(p, mode, ino, l, e)
      PROVE  IInv'
  BY <1>3, OpenExistingSafe, OpenCreateSafe DEF FbxOpenFile
<1>4. ASSUME NEW l \in Lock, NEW new \in Lock, FbxDupLock(l, new)
      PROVE  IInv'
  BY <1>4, DupSafe
<1>5. ASSUME NEW l \in Lock, NEW new \in Lock, NEW e \in Entry,
             FbxLocateParent(l, new, e)
      PROVE  IInv'
  BY <1>5, LocateParentSafe
<1>6. ASSUME NEW l \in Lock, FbxOpenFromLock(l)
      PROVE  IInv'
  BY <1>6, OpenFromLockSafe
<1>7. ASSUME NEW l \in Lock, FbxCloseFile(l) \/ FbxUnLockObject(l)
      PROVE  IInv'
  BY <1>7, ReleaseSafe DEF FbxCloseFile, FbxUnLockObject
<1>8. ASSUME NEW l \in Lock, NEW mode \in Access, FbxChangeMode(l, mode)
      PROVE  IInv'
  BY <1>8, ChangeModeSafe
<1>9. ASSUME NEW p \in Path, FbxDeleteObject(p)
      PROVE  IInv'
  BY <1>9, DeleteSafe
<1>10. ASSUME NEW p \in Path, NEW q \in Path, FbxRenameObject(p, q)
       PROVE  IInv'
  BY <1>10, RenameSafe
<1>11. ASSUME NEW n \in Request, NEW p \in Path, NEW e \in Entry,
              FbxAddNotify(n, p, e)
       PROVE  IInv'
  BY <1>11, AddNotifySafe
<1>12. ASSUME NEW n \in Request, FbxRemoveNotify(n)
       PROVE  IInv'
  BY <1>12, RemoveNotifySafe
<1>13. ASSUME NEW on \in Protection, FbxWriteProtect(on)
       PROVE  IInv'
  BY <1>13, WriteProtectSafe
<1>14. ASSUME NEW vol \in Volume, NEW disk \in Disk, NEW ro \in Protection,
              FbxSetupVolume(vol, disk, ro)
       PROVE  IInv'
  BY <1>14, SetupVolumeSafe
<1>15. CASE FbxCleanupVolume
  BY <1>15, CleanupVolumeSafe
<1>16. ASSUME NEW p \in Path, NEW l \in Lock, FbxMakeHardLink(p, l)
       PROVE  IInv'
  BY <1>16, HardLinkSafe
<1>17. CASE FbxDie
  BY <1>17, DieSafe
<1>18. QED
  BY <1>1, <1>2, <1>3, <1>4, <1>5, <1>6, <1>7, <1>8, <1>9, <1>10, <1>11, <1>12,
     <1>13, <1>14, <1>15, <1>16, <1>17
  DEF Next

\* The inductive invariant: every packet keeps the lists of entries, locks,
\* requests and volumes consistent with each other.
THEOREM Invariance == Spec => []IInv
<1>1. Init => IInv
  BY InitType, InitShape DEF IInv
<1>2. IInv /\ [Next]_vars => IInv'
  BY NextSafe, StutterSafe
<1>3. QED
  BY <1>1, <1>2, PTL DEF Spec

\* Every variable keeps the type of its C declaration.  That a volume freed by
\* FbxEndLock is a volume needs NoDangling.
THEOREM TypeCorrect == Spec => []TypeOK
<1>1. IInv => TypeOK
  BY DEF IInv
<1>2. QED
  BY <1>1, Invariance, PTL

\* FbxLockEntry, FbxChangeMode and the failing opens between them never let a
\* second lock onto an exclusively locked object.
THEOREM ExclusiveAloneHolds == Spec => []ExclusiveAlone
<1>1. IInv => ExclusiveAlone
  BY DEF IInv, XlockSole, ExclusiveAlone
<1>2. QED
  BY <1>1, Invariance, PTL

\* The mark that FbxLockEntry and FbxChangeMode set and FbxEndLock leaves alone
\* covers every exclusive lock, and an entry with the mark has one lock at most.
THEOREM XlockSoleHolds == Spec => []XlockSole
<1>1. IInv => XlockSole
  BY DEF IInv
<1>2. QED
  BY <1>1, Invariance, PTL

\* FbxCleanupEntry, FbxEndLock and FbxCleanupVolume free nothing that a lock
\* refers to, and no entry that a request hangs on.
THEOREM NoDanglingHolds == Spec => []NoDangling
<1>1. IInv => NoDangling
  BY DEF IInv
<1>2. QED
  BY <1>1, Invariance, PTL

\* FbxCleanupVolume leaves no lock with a backend file handle, and no other
\* packet opens one on an offline volume.
THEOREM OpenOnCurrentHolds == Spec => []OpenOnCurrent
<1>1. IInv => OpenOnCurrent
  BY DEF IInv
<1>2. QED
  BY <1>1, Invariance, PTL

\* FbxDie leaves no lock behind that only this file system could release, and
\* none is granted afterwards.
THEOREM ShutdownEndsLocksHolds == Spec => []ShutdownEndsLocks
<1>1. IInv => ShutdownEndsLocks
  BY DEF IInv, Shape, NoDangling, ShutdownEndsLocks
<1>2. QED
  BY <1>1, Invariance, PTL

\* Every packet that writes checks CHECKWRITABLE before it calls the backend:
\* nothing changes the tree of a volume that is read only or write protected
\* while it stays mounted.
THEOREM ProtectedUnchangedHolds == Spec => ProtectedUnchanged
<1>1. ASSUME Next, readonly \/ writeprotect, currvol' = currvol
      PROVE  UNCHANGED tree
  <2>0. ~Writable
    BY <1>1 DEF Writable
  <2>1. \A vol \in Volume : vol # NULL
    BY NullOutside
  <2>2. ASSUME NEW vol \in Volume, NEW disk \in Disk, NEW ro \in Protection,
               FbxSetupVolume(vol, disk, ro)
        PROVE  FALSE
    BY <1>1, <2>1, <2>2 DEF FbxSetupVolume, OkVolume
  <2>3. ASSUME NEW p \in Path, NEW l \in Lock, NEW e \in Entry
        PROVE  /\ \A mode : FbxLocateObject(p, mode, l, e) => UNCHANGED tree
               /\ \A ino : ~FbxCreateDir(p, ino, l, e)
               /\ \A mode, ino : FbxOpenFile(p, mode, ino, l, e) => UNCHANGED tree
    BY <2>0 DEF FbxLocateObject, FbxCreateDir, FbxOpenFile, OpenExisting,
       OpenCreate, backend
  <2>4. ASSUME NEW l \in Lock
        PROVE  /\ \A new : FbxDupLock(l, new) => UNCHANGED tree
               /\ \A new, e : FbxLocateParent(l, new, e) => UNCHANGED tree
               /\ FbxOpenFromLock(l) \/ FbxCloseFile(l) \/ FbxUnLockObject(l)
                    => UNCHANGED tree
               /\ \A mode : FbxChangeMode(l, mode) => UNCHANGED tree
    BY DEF FbxDupLock, FbxLocateParent, FbxLocateObject, FbxOpenFromLock,
       FbxCloseFile, FbxUnLockObject, FbxChangeMode, backend
  <2>5. ASSUME NEW p \in Path
        PROVE  ~FbxDeleteObject(p) /\ \A q : ~FbxRenameObject(p, q)
    BY <2>0 DEF FbxDeleteObject, FbxRenameObject
  <2>6. ASSUME NEW n \in Request
        PROVE  /\ \A p, e : FbxAddNotify(n, p, e) => UNCHANGED tree
               /\ FbxRemoveNotify(n) => UNCHANGED tree
    BY DEF FbxAddNotify, FbxRemoveNotify, backend
  <2>7. /\ \A on : FbxWriteProtect(on) => UNCHANGED tree
        /\ FbxCleanupVolume => UNCHANGED tree
    BY DEF FbxWriteProtect, FbxCleanupVolume, backend
  <2>8. /\ \A p, l : ~FbxMakeHardLink(p, l)
        /\ FbxDie => UNCHANGED tree
    BY <2>0 DEF FbxMakeHardLink, FbxDie, backend
  <2>9. QED
    BY <1>1, <2>2, <2>3, <2>4, <2>5, <2>6, <2>7, <2>8 DEF Next
<1>2. [Next]_vars => [(readonly \/ writeprotect) /\ currvol' = currvol
                      => UNCHANGED tree]_vars
  BY <1>1 DEF vars
<1>3. QED
  BY <1>2, PTL DEF Spec, ProtectedUnchanged

\* Trees stay trees, and the entries of a volume follow the objects on it.
THEOREM NamesInvariance == Spec => []NamesInv
<1>1. Init => NamesInv
  BY InitNames
<1>2. IInv /\ NamesInv /\ [Next]_vars => NamesInv'
  BY NextNames, StutterNames
<1>3. QED
  BY <1>1, <1>2, Invariance, PTL DEF Spec

\* No packet makes a second entry for a name: not an open that creates its file,
\* not a rename onto a name that is in use or from below, and not a mount that
\* gets the memory of a volume that entries still point to.
THEOREM OneEntryPerPathHolds == Spec => []OneEntryPerPath
<1>1. NamesInv => OneEntryPerPath
  BY DEF NamesInv
<1>2. QED
  BY <1>1, NamesInvariance, PTL

\* FbxRenameObject with FbxUpdatePaths, FbxDeleteObject with FbxCleanupEntry:
\* entries move with their objects and go with them.
THEOREM EntryKeepsObjectHolds == Spec => []EntryKeepsObject
<1>1. NamesInv => EntryKeepsObject
  BY DEF NamesInv
<1>2. QED
  BY <1>1, NamesInvariance, PTL

-----------------------------------------------------------------------------
(* FbxRename: the walk of FbxUpdatePaths *)

\* No entry is in the list twice.
Distinct(list) == \A m, n \in DOMAIN list : list[m] = list[n] => m = n

In(list, e) == \E n \in DOMAIN list : list[n] = e

LEMMA BucketOrder ==
  ASSUME IsFiniteSet(Walked), NEW S \in SUBSET Walked, NEW s \in SetToSeqs(S)
  PROVE  s \in Seq(Walked) /\ Distinct(s) /\ \A e : In(s, e) <=> e \in S
<1> DEFINE D == 1..Cardinality(S)
<1>1. IsFiniteSet(S) /\ Cardinality(S) \in Nat
  BY FS_Subset, FS_CardinalityType
<1>2. s \in [D -> S] /\ \A i, j \in D : i # j => s[i] # s[j]
  BY DEF SetToSeqs
<1>3. s \in Seq(Walked)
  BY <1>1, <1>2
<1>4. s \in Injection(D, S)
  BY <1>2 DEF Injection, IsInjective
<1>5. Cardinality(D) = Cardinality(S) /\ IsFiniteSet(D)
  BY <1>1, FS_Interval
<1>6. s \in Surjection(D, S)
  BY <1>1, <1>4, <1>5, FS_Injection
<1>7. \A e \in S : \E i \in D : s[i] = e
  BY <1>6 DEF Surjection
<1> QED
  BY <1>2, <1>3, <1>7 DEF Distinct, In

\* A walk over a list begins before every node of it.
LEMMA FirstNode ==
  ASSUME END \notin Walked, NEW list \in Seq(Walked), NEW c, c = First(list)
  PROVE  /\ c = END \/ (c \in Walked /\ In(list, c))
         /\ \A m \in DOMAIN list :
              c # END /\ \E n \in DOMAIN list : list[n] = c /\ n <= m
<1>1. CASE list = <<>>
  BY <1>1 DEF First
<1>2. CASE list # <<>>
  <2>1. 1 \in DOMAIN list /\ c = list[1] /\ DOMAIN list = 1..Len(list)
    BY <1>2 DEF First
  <2>2. list[1] \in Walked
    BY <2>1, ElementOfSeq
  <2> QED
    BY <2>1, <2>2 DEF In
<1> QED
  BY <1>1, <1>2

LEMMA NextNode ==
  ASSUME NEW list \in Seq(Walked), Distinct(list), NEW k \in DOMAIN list
  PROVE  Succ(list, list[k]) = IF k = Len(list) THEN END ELSE list[k + 1]
<1>1. (CHOOSE n \in DOMAIN list : list[n] = list[k]) = k
  BY DEF Distinct
<1> QED
  BY <1>1 DEF Succ

\* A list that another one is without its k-th node.
LEMMA WithoutNode ==
  ASSUME NEW list \in Seq(Walked), Distinct(list), NEW k \in DOMAIN list,
         NEW t, t = Without(list, list[k])
  PROVE  /\ t \in Seq(Walked) /\ Len(t) = Len(list) - 1 /\ DOMAIN t = 1..Len(list) - 1
         /\ \A i \in 1..Len(list) - 1 : t[i] = IF i < k THEN list[i] ELSE list[i + 1]
<1> DEFINE before == SubSeq(list, 1, k - 1)
           after  == SubSeq(list, k + 1, Len(list))
<1>1. (CHOOSE n \in DOMAIN list : list[n] = list[k]) = k
  BY DEF Distinct
<1>2. t = before \o after
  BY <1>1 DEF Without, RemoveAt
<1>3. k \in 1..Len(list) /\ k \in Nat /\ Len(list) \in Nat
  BY LenProperties
<1>4. /\ before \in Seq(Walked) /\ Len(before) = k - 1
      /\ \A i \in 1..k - 1 : before[i] = list[i]
  <2>1. \A i \in 1..k - 1 : list[i] \in Walked
    BY <1>3, ElementOfSeq
  <2> QED
    BY <1>3, <2>1, SubSeqProperties
<1>5. /\ after \in Seq(Walked) /\ Len(after) = Len(list) - k
      /\ \A i \in 1..Len(list) - k : after[i] = list[k + i]
  <2>1. \A i \in k + 1..Len(list) : list[i] \in Walked
    BY <1>3, ElementOfSeq
  <2> QED
    BY <1>3, <2>1, SubSeqProperties
<1> HIDE DEF before, after
<1>6. /\ t \in Seq(Walked) /\ Len(t) = Len(list) - 1
      /\ \A i \in 1..Len(list) - 1 :
           t[i] = IF i <= k - 1 THEN before[i] ELSE after[i - (k - 1)]
  <2>1. /\ t \in Seq(Walked) /\ Len(t) = Len(before) + Len(after)
        /\ \A i \in 1..Len(before) + Len(after) :
             t[i] = IF i <= Len(before) THEN before[i] ELSE after[i - Len(before)]
    <3>1. before \in Seq(Walked) /\ after \in Seq(Walked)
      BY <1>4, <1>5
    <3>2. /\ before \o after \in Seq(Walked)
          /\ Len(before \o after) = Len(before) + Len(after)
          /\ \A i \in 1..Len(before) + Len(after) :
               (before \o after)[i] = IF i <= Len(before) THEN before[i]
                                      ELSE after[i - Len(before)]
      BY <3>1, ConcatProperties
    <3> QED
      BY <1>2, <3>2
  <2>2. Len(before) + Len(after) = Len(list) - 1 /\ Len(before) = k - 1
    BY <1>3, <1>4, <1>5
  <2> QED
    BY <2>1, <2>2
<1>7. ASSUME NEW i \in 1..Len(list) - 1
      PROVE  t[i] = IF i < k THEN list[i] ELSE list[i + 1]
  <2>1. CASE i < k
    BY <1>3, <1>4, <1>6, <2>1
  <2>2. CASE ~(i < k)
    <3>1. i - (k - 1) \in 1..Len(list) - k /\ k + (i - (k - 1)) = i + 1 /\ ~(i <= k - 1)
      BY <1>3, <2>2
    <3>2. after[i - (k - 1)] = list[k + (i - (k - 1))]
      BY <1>5, <3>1
    <3> QED
      BY <1>6, <2>2, <3>1, <3>2
  <2> QED
    BY <2>1, <2>2
<1> QED
  BY <1>3, <1>6, <1>7, LenProperties

\* Its nodes are the others, each once.
LEMMA WithoutNodes ==
  ASSUME NEW list \in Seq(Walked), Distinct(list), NEW k \in DOMAIN list,
         NEW t, t = Without(list, list[k])
  PROVE  Distinct(t) /\ \A e : In(t, e) <=> In(list, e) /\ e # list[k]
<1>1. /\ DOMAIN t = 1..Len(list) - 1
      /\ \A i \in 1..Len(list) - 1 : t[i] = IF i < k THEN list[i] ELSE list[i + 1]
  BY WithoutNode
<1>2. DOMAIN list = 1..Len(list) /\ Len(list) \in Nat
  BY LenProperties
<1> DEFINE old(i) == IF i < k THEN i ELSE i + 1
<1>3. ASSUME NEW i \in DOMAIN t PROVE old(i) \in DOMAIN list /\ old(i) # k /\ t[i] = list[old(i)]
  BY <1>1, <1>2
<1>4. ASSUME NEW i \in DOMAIN t, NEW j \in DOMAIN t, t[i] = t[j] PROVE i = j
  <2>1. old(i) = old(j)
    BY <1>3, <1>4 DEF Distinct
  <2> QED
    BY <1>1, <1>2, <2>1
<1>5. ASSUME NEW e, In(list, e), e # list[k] PROVE In(t, e)
  <2>1. PICK m \in DOMAIN list : list[m] = e
    BY <1>5 DEF In
  <2>2. m # k
    BY <1>5, <2>1
  <2>3. CASE m < k
    BY <1>1, <1>2, <2>1, <2>3 DEF In
  <2>4. CASE ~(m < k)
    <3>1. m - 1 \in DOMAIN t /\ ~(m - 1 < k) /\ (m - 1) + 1 = m
      BY <1>1, <1>2, <2>2, <2>4
    <3> QED
      BY <1>1, <2>1, <3>1 DEF In
  <2> QED
    BY <2>3, <2>4
<1>6. ASSUME NEW e, In(t, e) PROVE In(list, e) /\ e # list[k]
  <2>1. PICK i \in DOMAIN t : t[i] = e
    BY <1>6 DEF In
  <2>2. old(i) \in DOMAIN list /\ old(i) # k /\ list[old(i)] = e
    BY <1>3, <2>1
  <2> QED
    BY <2>2 DEF In, Distinct
<1> QED
  BY <1>4, <1>5, <1>6 DEF Distinct

\* AddTail of an entry that is not in the list.
LEMMA AppendNode ==
  ASSUME NEW list \in Seq(Walked), Distinct(list), NEW c \in Walked, ~In(list, c),
         NEW t, t = Append(list, c)
  PROVE  /\ t \in Seq(Walked) /\ Distinct(t)
         /\ DOMAIN t = 1..Len(list) + 1
         /\ \A i \in 1..Len(list) : t[i] = list[i]
         /\ \A e : In(t, e) <=> In(list, e) \/ e = c
<1>1. /\ t \in Seq(Walked) /\ Len(t) = Len(list) + 1
      /\ \A i \in 1..Len(list) : t[i] = list[i]
      /\ t[Len(list) + 1] = c
  BY AppendProperties
<1>2. DOMAIN t = 1..Len(list) + 1 /\ DOMAIN list = 1..Len(list) /\ Len(list) \in Nat
  BY <1>1, LenProperties
<1>3. Distinct(t)
  BY <1>1, <1>2 DEF Distinct, In
<1>4. ASSUME NEW e PROVE In(t, e) <=> In(list, e) \/ e = c
  BY <1>1, <1>2 DEF In
<1> QED
  BY <1>1, <1>2, <1>3, <1>4

LEMMA BucketTypes ==
  ASSUME WalkTypeOK
  PROVE  /\ \A i \in Index : entrytab[i] \in Seq(Walked)
         /\ \A e \in Walked, p \in Place : Home(e, p) \in Index
         /\ \A e \in Walked : path[e] \in Place
         /\ \A i \in Index : i \in 0..Bucket - 1
         /\ Bucket \in Nat /\ a \in 0..Bucket
BY WalkAssumption DEF WalkAssumption, WalkTypeOK, Index, Home

\* What TableInv says of one bucket.
LEMMA BucketNodes ==
  TableInv <=>
    \A i \in Index :
      Distinct(entrytab[i]) /\ \A e \in Walked : In(entrytab[i], e) <=> i = Home(e, path[e])
BY DEF TableInv, Distinct, In

LEMMA InitWalk == WalkInit => WalkIInv
<1> SUFFICES ASSUME WalkInit PROVE WalkIInv
  OBVIOUS
<1>1. \A i \in Index :
        /\ entrytab[i] \in Seq(Walked) /\ Distinct(entrytab[i])
        /\ \A e \in Walked : In(entrytab[i], e) <=> i = Home(e, path[e])
  <2> TAKE i \in Index
  <2> DEFINE S == {e \in Walked : Home(e, path[e]) = i}
  <2>1. entrytab[i] \in SetToSeqs(S) /\ S \in SUBSET Walked
    BY DEF WalkInit
  <2>2. /\ entrytab[i] \in Seq(Walked) /\ Distinct(entrytab[i])
        /\ \A e : In(entrytab[i], e) <=> e \in S
    BY <2>1, BucketOrder, WalkAssumption DEF WalkAssumption
  <2> QED
    BY <2>2
<1>2. TableInv
  BY <1>1, BucketNodes
<1>3. 0 \in Index /\ a = 0 /\ a \in 0..Bucket /\ a < Bucket
  BY WalkAssumption DEF WalkAssumption, WalkInit, Index
<1>4. /\ chain = END \/ (chain \in Walked /\ In(entrytab[0], chain))
      /\ \A m \in DOMAIN entrytab[0] :
           chain # END /\ \E n \in DOMAIN entrytab[0] : entrytab[0][n] = chain /\ n <= m
  <2>1. chain = First(entrytab[0]) /\ entrytab[0] \in Seq(Walked) /\ END \notin Walked
    BY <1>1, <1>3, WalkAssumption DEF WalkInit, WalkAssumption
  <2> QED
    BY <2>1, FirstNode
<1>5. WalkTypeOK
  <2>1. entrytab \in [Index -> Seq(Walked)]
    BY <1>1 DEF WalkInit
  <2> QED
    BY <1>3, <1>4, <2>1 DEF WalkInit, WalkTypeOK, Place
<1>6. WalkInv
  <2>1. chain # END => a < Bucket /\ a = Home(chain, path[chain])
    BY <1>1, <1>3, <1>4
  <2>2. ASSUME NEW e \in Walked
        PROVE  a < Home(e, "old") \/ a = Home(e, "old")
    <3>1. Home(e, "old") \in 0..Bucket - 1
      BY <1>5, BucketTypes DEF Place
    <3> QED
      BY <1>3, <3>1
  <2>3. \A m \in DOMAIN entrytab[a] : NotPassed(m)
    BY <1>3, <1>4 DEF NotPassed
  <2> QED
    BY <2>1, <2>2, <2>3 DEF WalkInv
<1> QED
  BY <1>2, <1>5, <1>6 DEF WalkIInv

\* Every entry under the old name of a bucket was met before its end.
LEMMA NextBucketKeeps ==
  ASSUME WalkIInv, NextBucket
  PROVE  WalkIInv'
<1>1. /\ a < Bucket /\ chain = END /\ a' = a + 1
      /\ hash' = hash /\ path' = path /\ entrytab' = entrytab
      /\ chain' = IF a' < Bucket THEN First(entrytab[a']) ELSE END
      /\ WalkTypeOK /\ TableInv
  BY DEF NextBucket, WalkIInv
<1>2. TableInv'
  BY <1>1 DEF TableInv, Home, Index
<1>3. a' \in 0..Bucket /\ (a' < Bucket => a' \in Index)
  BY <1>1, BucketTypes DEF Index
<1>4. a' < Bucket =>
        /\ chain' = END \/ (chain' \in Walked /\ In(entrytab[a'], chain'))
        /\ \A m \in DOMAIN entrytab[a'] :
             chain' # END /\ \E n \in DOMAIN entrytab[a'] : entrytab[a'][n] = chain' /\ n <= m
  <2> SUFFICES ASSUME a' < Bucket
               PROVE  /\ chain' = END \/ (chain' \in Walked /\ In(entrytab[a'], chain'))
                      /\ \A m \in DOMAIN entrytab[a'] :
                           /\ chain' # END
                           /\ \E n \in DOMAIN entrytab[a'] :
                                entrytab[a'][n] = chain' /\ n <= m
    OBVIOUS
  <2> DEFINE list == entrytab[a']
             c == chain'
  <2>1. c = First(list) /\ list \in Seq(Walked) /\ END \notin Walked
    BY <1>1, <1>3, BucketTypes, WalkAssumption DEF WalkAssumption
  <2> HIDE DEF list, c
  <2>2. /\ c = END \/ (c \in Walked /\ In(list, c))
        /\ \A m \in DOMAIN list :
             c # END /\ \E n \in DOMAIN list : list[n] = c /\ n <= m
    BY <2>1, FirstNode
  <2> QED
    BY <2>2 DEF list, c
<1>5. WalkTypeOK'
  <2>1. chain' \in Walked \cup {END}
    BY <1>1, <1>4
  <2> QED
    BY <1>1, <1>3, <2>1 DEF WalkTypeOK, Place, Index
<1>6. chain' # END => a' < Bucket /\ a' = hash[chain'][path[chain']]
  <2>1. ASSUME chain' # END PROVE a' < Bucket /\ chain' \in Walked /\ In(entrytab[a'], chain')
    BY <1>1, <1>4, <2>1
  <2> QED
    BY <1>1, <1>3, <2>1, BucketNodes DEF Home
<1>7. ASSUME NEW e \in Walked, path[e] = "old"
      PROVE  \/ a' < hash[e]["old"]
             \/ /\ a' = hash[e]["old"]
                /\ \A m \in DOMAIN entrytab[a'] :
                     chain' # END /\ \E n \in DOMAIN entrytab[a'] : entrytab[a'][n] = chain' /\ n <= m
  <2>1. hash[e]["old"] \in Index /\ hash[e]["old"] \in 0..Bucket - 1
    BY <1>1, BucketTypes DEF Place, Home
  <2>2. a < hash[e]["old"]
    <3>1. a = hash[e]["old"] => In(entrytab[a], e)
      BY <1>1, <1>7, <2>1, BucketNodes DEF Home
    <3>2. \/ a < hash[e]["old"]
          \/ /\ a = hash[e]["old"]
             /\ \A m \in DOMAIN entrytab[a] : entrytab[a][m] = e => NotPassed(m)
      BY <1>7 DEF WalkIInv, WalkInv, Home
    <3>3. \A m : ~NotPassed(m)
      BY <1>1 DEF NotPassed
    <3> QED
      BY <3>1, <3>2, <3>3 DEF In
  <2>3. a' < hash[e]["old"] \/ (a' = hash[e]["old"] /\ a' < Bucket)
    BY <1>1, <2>1, <2>2, BucketTypes
  <2> QED
    BY <1>4, <2>3
<1>8. WalkInv'
  <2>1. chain' # END => a' < Bucket /\ a' = Home(chain, path[chain])'
    BY <1>1, <1>6 DEF Home
  <2>2. ASSUME NEW e \in Walked, path'[e] = "old"
        PROVE  \/ a' < Home(e, "old")'
               \/ /\ a' = Home(e, "old")'
                  /\ \A m \in DOMAIN entrytab'[a'] : NotPassed(m)'
    BY <1>1, <1>7, <2>2 DEF Home, NotPassed
  <2> QED
    BY <2>1, <2>2 DEF WalkInv
<1> QED
  BY <1>2, <1>5, <1>8 DEF WalkIInv

\* What is next when the entry that is looked at has been moved or not.
LEMMA VisitNodes ==
  ASSUME WalkIInv, Visit
  PROVE  \E k \in DOMAIN entrytab[a] :
           /\ a \in Index /\ chain \in Walked /\ chain = entrytab[a][k]
           /\ a = Home(chain, path[chain])
           /\ entrytab[a] \in Seq(Walked) /\ Distinct(entrytab[a])
           /\ \A m \in DOMAIN entrytab[a] : entrytab[a][m] \in Walked
           /\ chain' = IF k = Len(entrytab[a]) THEN END ELSE entrytab[a][k + 1]
           /\ \A m \in DOMAIN entrytab[a] : path[entrytab[a][m]] = "old" => m >= k
<1>1. a < Bucket /\ chain # END /\ chain' = Succ(entrytab[a], chain)
  BY DEF Visit
<1>2. a \in Index /\ chain \in Walked /\ a = Home(chain, path[chain])
  BY <1>1, BucketTypes DEF WalkIInv, WalkInv, WalkTypeOK, Index
<1>3. entrytab[a] \in Seq(Walked) /\ Distinct(entrytab[a]) /\ In(entrytab[a], chain)
  BY <1>2, BucketTypes, BucketNodes DEF WalkIInv
<1>4. PICK k \in DOMAIN entrytab[a] : entrytab[a][k] = chain
  BY <1>3 DEF In
<1>5. chain' = IF k = Len(entrytab[a]) THEN END ELSE entrytab[a][k + 1]
  <2>1. Succ(entrytab[a], entrytab[a][k])
          = IF k = Len(entrytab[a]) THEN END ELSE entrytab[a][k + 1]
    BY <1>3, NextNode
  <2> QED
    BY <1>1, <1>4, <2>1
<1>6. ASSUME NEW m \in DOMAIN entrytab[a], path[entrytab[a][m]] = "old"
      PROVE  m >= k
  <2>1. entrytab[a][m] \in Walked
    BY <1>3, ElementOfSeq
  <2>2. a = Home(entrytab[a][m], "old")
    BY <1>2, <1>6, <2>1, BucketNodes DEF WalkIInv, In
  <2>3. a \in 0..Bucket - 1
    BY <1>2, BucketTypes DEF WalkIInv
  <2>4. NotPassed(m)
    BY <1>6, <2>1, <2>2, <2>3 DEF WalkIInv, WalkInv
  <2>5. PICK n \in DOMAIN entrytab[a] : entrytab[a][n] = chain /\ n <= m
    BY <2>4 DEF NotPassed
  <2>6. n = k
    BY <1>3, <1>4, <2>5 DEF Distinct
  <2>7. k \in Nat /\ m \in Nat
    BY <1>3, LenProperties
  <2> QED
    BY <2>5, <2>6, <2>7
<1>7. \A m \in DOMAIN entrytab[a] : entrytab[a][m] \in Walked
  BY <1>3, ElementOfSeq
<1> QED
  BY <1>2, <1>3, <1>4, <1>5, <1>6, <1>7

\* An entry that is not below the directory stays where it is.
LEMMA PassKeeps ==
  ASSUME WalkIInv, Visit, ~Matches(chain)
  PROVE  WalkIInv'
<1>1. /\ a' = a /\ hash' = hash /\ path' = path /\ entrytab' = entrytab
      /\ path[chain] # "old"
      /\ WalkTypeOK /\ TableInv /\ a < Bucket
  BY DEF Visit, WalkIInv, Matches
<1>2. PICK k \in DOMAIN entrytab[a] :
        /\ a \in Index /\ chain \in Walked /\ chain = entrytab[a][k]
        /\ a = Home(chain, path[chain])
        /\ entrytab[a] \in Seq(Walked) /\ Distinct(entrytab[a])
        /\ \A m \in DOMAIN entrytab[a] : entrytab[a][m] \in Walked
        /\ chain' = IF k = Len(entrytab[a]) THEN END ELSE entrytab[a][k + 1]
        /\ \A m \in DOMAIN entrytab[a] : path[entrytab[a][m]] = "old" => m >= k
  BY VisitNodes
<1>3. TableInv'
  BY <1>1 DEF TableInv, Home, Index
<1>4. DOMAIN entrytab[a] = 1..Len(entrytab[a]) /\ Len(entrytab[a]) \in Nat
  BY <1>2, LenProperties
<1>5. chain' = END \/ (k + 1 \in DOMAIN entrytab[a] /\ chain' = entrytab[a][k + 1] /\ chain' \in Walked)
  <2>1. CASE k = Len(entrytab[a])
    BY <1>2, <2>1
  <2>2. CASE k # Len(entrytab[a])
    <3>1. k + 1 \in DOMAIN entrytab[a]
      BY <1>4, <2>2
    <3> QED
      BY <1>2, <2>2, <3>1
  <2> QED
    BY <2>1, <2>2
<1>6. WalkTypeOK'
  <2>1. chain' \in Walked \cup {END}
    BY <1>5
  <2> QED
    BY <1>1, <2>1 DEF WalkTypeOK, Place, Index
<1>7. chain' # END => a = hash[chain'][path[chain']]
  BY <1>1, <1>2, <1>5, BucketNodes DEF Home, In
<1>8. ASSUME NEW e \in Walked, path[e] = "old"
      PROVE  \/ a < hash[e]["old"]
             \/ /\ a = hash[e]["old"]
                /\ \A m \in DOMAIN entrytab[a] : entrytab[a][m] = e =>
                     chain' # END /\ \E n \in DOMAIN entrytab[a] : entrytab[a][n] = chain' /\ n <= m
  <2>1. a < hash[e]["old"] \/ a = hash[e]["old"]
    BY <1>8 DEF WalkIInv, WalkInv, Home
  <2>2. ASSUME NEW m \in DOMAIN entrytab[a], entrytab[a][m] = e
        PROVE  chain' # END /\ \E n \in DOMAIN entrytab[a] : entrytab[a][n] = chain' /\ n <= m
    <3>1. m >= k /\ m # k
      BY <1>1, <1>2, <1>8, <2>2
    <3>2. k + 1 \in DOMAIN entrytab[a] /\ k + 1 <= m /\ k # Len(entrytab[a])
      BY <1>4, <3>1
    <3>3. chain' = entrytab[a][k + 1] /\ entrytab[a][k + 1] \in Walked
      BY <1>2, <3>2
    <3>4. chain' # END
      BY <3>3, WalkAssumption DEF WalkAssumption
    <3> QED
      BY <3>2, <3>3, <3>4
  <2> QED
    BY <2>1, <2>2
<1>9. WalkInv'
  <2>1. chain' # END => a' < Bucket /\ a' = Home(chain, path[chain])'
    BY <1>1, <1>7 DEF Home
  <2>2. ASSUME NEW e \in Walked, path'[e] = "old"
        PROVE  \/ a' < Home(e, "old")'
               \/ /\ a' = Home(e, "old")'
                  /\ \A m \in DOMAIN entrytab'[a'] : entrytab'[a'][m] = e => NotPassed(m)'
    BY <1>1, <1>8, <2>2 DEF Home, NotPassed
  <2> QED
    BY <2>1, <2>2 DEF WalkInv
<1> QED
  BY <1>3, <1>6, <1>9 DEF WalkIInv

\* An entry below the directory goes to the bucket of its new name.
LEMMA MoveKeeps ==
  ASSUME WalkIInv, Visit, Matches(chain)
  PROVE  WalkIInv'
<1> DEFINE b == Home(chain, "new")
<1>1. /\ a' = a /\ hash' = hash /\ path' = [path EXCEPT ![chain] = "new"]
      /\ Rehash(chain)
      /\ WalkTypeOK /\ TableInv /\ a < Bucket
  BY DEF Visit, WalkIInv
<1>2. PICK k \in DOMAIN entrytab[a] :
        /\ a \in Index /\ chain \in Walked /\ chain = entrytab[a][k]
        /\ a = Home(chain, path[chain])
        /\ entrytab[a] \in Seq(Walked) /\ Distinct(entrytab[a])
        /\ \A m \in DOMAIN entrytab[a] : entrytab[a][m] \in Walked
        /\ chain' = IF k = Len(entrytab[a]) THEN END ELSE entrytab[a][k + 1]
        /\ \A m \in DOMAIN entrytab[a] : path[entrytab[a][m]] = "old" => m >= k
  BY VisitNodes
<1>3. b \in Index
  BY <1>1, <1>2, BucketTypes DEF Place
<1>4. PICK t : t = Without(entrytab[a], chain)
  OBVIOUS
<1>5. /\ t \in Seq(Walked) /\ Len(t) = Len(entrytab[a]) - 1
      /\ DOMAIN t = 1..Len(entrytab[a]) - 1
      /\ \A i \in 1..Len(entrytab[a]) - 1 :
           t[i] = IF i < k THEN entrytab[a][i] ELSE entrytab[a][i + 1]
  <2> DEFINE list == entrytab[a]
  <2>1. /\ list \in Seq(Walked) /\ Distinct(list) /\ k \in DOMAIN list
        /\ t = Without(list, list[k])
    BY <1>2, <1>4
  <2> HIDE DEF list
  <2>2. /\ t \in Seq(Walked) /\ Len(t) = Len(list) - 1 /\ DOMAIN t = 1..Len(list) - 1
        /\ \A i \in 1..Len(list) - 1 : t[i] = IF i < k THEN list[i] ELSE list[i + 1]
    BY <2>1, WithoutNode
  <2> QED
    BY <2>2 DEF list
<1>6. Distinct(t) /\ \A e : In(t, e) <=> In(entrytab[a], e) /\ e # chain
  BY <1>2, <1>4, WithoutNodes
<1>7. PICK r : r = [entrytab EXCEPT ![a] = t]
  OBVIOUS
<1>8. /\ r \in [Index -> Seq(Walked)] /\ entrytab' = [r EXCEPT ![b] = Append(r[b], chain)]
      /\ \A i \in Index : r[i] = IF i = a THEN t ELSE entrytab[i]
  BY <1>1, <1>2, <1>4, <1>5, <1>7 DEF Rehash, WalkTypeOK
<1>9. \A i \in Index :
        /\ Distinct(r[i])
        /\ \A e \in Walked : In(r[i], e) <=> i = Home(e, path[e]) /\ e # chain
  <2>1. \A i \in Index :
          /\ Distinct(entrytab[i])
          /\ \A e \in Walked : In(entrytab[i], e) <=> i = Home(e, path[e])
    BY <1>1, BucketNodes
  <2> TAKE i \in Index
  <2>2. CASE i = a
    <3>1. r[i] = t /\ \A e \in Walked : In(entrytab[a], e) <=> i = Home(e, path[e])
      BY <1>2, <1>8, <2>1, <2>2
    <3> QED
      BY <1>6, <3>1
  <2>3. CASE i # a
    BY <1>2, <1>8, <2>1, <2>3
  <2> QED
    BY <2>2, <2>3
<1>10. /\ entrytab'[b] \in Seq(Walked) /\ Distinct(entrytab'[b])
       /\ \A i \in 1..Len(r[b]) : entrytab'[b][i] = r[b][i]
       /\ DOMAIN entrytab'[b] = 1..Len(r[b]) + 1
       /\ \A e : In(entrytab'[b], e) <=> In(r[b], e) \/ e = chain
  <2>1. r[b] \in Seq(Walked) /\ Distinct(r[b]) /\ ~In(r[b], chain)
    BY <1>2, <1>3, <1>8, <1>9
  <2>2. entrytab'[b] = Append(r[b], chain)
    BY <1>3, <1>8
  <2> DEFINE list == r[b]
             u    == entrytab'[b]
  <2>3. /\ list \in Seq(Walked) /\ Distinct(list) /\ ~In(list, chain)
        /\ u = Append(list, chain) /\ chain \in Walked
    BY <1>2, <2>1, <2>2
  <2> HIDE DEF b, list, u
  <2>4. /\ u \in Seq(Walked) /\ Distinct(u)
        /\ DOMAIN u = 1..Len(list) + 1
        /\ \A i \in 1..Len(list) : u[i] = list[i]
        /\ \A e : In(u, e) <=> In(list, e) \/ e = chain
    BY <2>3, AppendNode
  <2> QED
    BY <2>4 DEF list, u
<1>11. /\ entrytab' \in [Index -> Seq(Walked)]
       /\ \A i \in Index : i # b => entrytab'[i] = r[i]
  BY <1>3, <1>8, <1>10
<1> HIDE DEF b
<1>12. /\ path' \in [Walked -> Place] /\ path'[chain] = "new"
       /\ \A e \in Walked : e # chain => path'[e] = path[e]
  BY <1>1, <1>2 DEF WalkTypeOK, Place
<1>13. TableInv'
  <2>1. ASSUME NEW i \in Index
        PROVE  /\ Distinct(entrytab'[i])
               /\ \A e \in Walked : In(entrytab'[i], e) <=> i = hash[e][path'[e]]
    <3>1. hash[chain][path'[chain]] = b
      BY <1>12 DEF b, Home
    <3>2. CASE i = b
      BY <1>9, <1>10, <1>12, <3>1, <3>2 DEF Home
    <3>3. CASE i # b
      BY <1>9, <1>11, <1>12, <3>1, <3>3 DEF Home
    <3> QED
      BY <3>2, <3>3
  <2> QED
    BY <1>1, <2>1 DEF TableInv, Distinct, In, Index, Home
<1>14. DOMAIN entrytab[a] = 1..Len(entrytab[a]) /\ Len(entrytab[a]) \in Nat
  BY <1>2, LenProperties
<1>15. chain' = END \/ (k + 1 \in DOMAIN entrytab[a] /\ chain' = entrytab[a][k + 1]
                        /\ chain' \in Walked /\ chain' # chain)
  <2>1. CASE k = Len(entrytab[a])
    BY <1>2, <2>1
  <2>2. CASE k # Len(entrytab[a])
    <3>1. k + 1 \in DOMAIN entrytab[a] /\ k + 1 # k
      BY <1>14, <2>2
    <3>2. entrytab[a][k + 1] \in Walked
      BY <1>2, <3>1
    <3> QED
      BY <1>2, <2>2, <3>1, <3>2 DEF Distinct
  <2> QED
    BY <2>1, <2>2
<1>16. WalkTypeOK'
  <2>1. chain' \in Walked \cup {END}
    BY <1>15
  <2> QED
    BY <1>1, <1>11, <1>12, <2>1 DEF WalkTypeOK, Place, Index
<1>17. chain' # END => a = hash[chain'][path'[chain']]
  <2>1. chain' # END => In(entrytab[a], chain')
    BY <1>15 DEF In
  <2>2. chain' # END => a = hash[chain'][path[chain']]
    BY <1>1, <1>2, <1>15, <2>1, BucketNodes DEF Home
  <2> QED
    BY <1>12, <1>15, <2>2
<1>18. ASSUME NEW e \in Walked, path'[e] = "old"
       PROVE  \/ a < hash[e]["old"]
              \/ /\ a = hash[e]["old"]
                 /\ \A m \in DOMAIN entrytab'[a] : entrytab'[a][m] = e =>
                      /\ chain' # END
                      /\ \E n \in DOMAIN entrytab'[a] : entrytab'[a][n] = chain' /\ n <= m
  <2>1. e # chain /\ path[e] = "old"
    BY <1>2, <1>12, <1>18
  <2>2. a < hash[e]["old"] \/ a = hash[e]["old"]
    BY <2>1 DEF WalkIInv, WalkInv, Home
  <2>3. ASSUME NEW m \in DOMAIN entrytab'[a], entrytab'[a][m] = e
        PROVE  /\ chain' # END
               /\ \E n \in DOMAIN entrytab'[a] : entrytab'[a][n] = chain' /\ n <= m
    <3>1. r[a] = t
      BY <1>2, <1>8
    <3>2. \A i \in DOMAIN t : i \in DOMAIN entrytab'[a] /\ entrytab'[a][i] = t[i]
      <4>1. CASE a = b
        BY <1>5, <1>10, <1>14, <3>1, <4>1
      <4>2. CASE a # b
        BY <1>2, <1>11, <3>1, <4>2
      <4> QED
        BY <4>1, <4>2
    <3>3. m \in DOMAIN t /\ t[m] = e
      <4>1. CASE a = b
        <5>1. entrytab'[a] = Append(t, chain)
          BY <1>2, <1>8, <3>1, <4>1
        <5>2. m \in 1..Len(t) + 1 /\ (Append(t, chain))[Len(t) + 1] = chain
          BY <1>2, <1>5, <1>10, <2>3, <3>1, <4>1, AppendProperties
        <5>3. m # Len(t) + 1
          BY <2>1, <2>3, <5>1, <5>2
        <5>4. Len(t) \in Nat
          BY <1>5, LenProperties
        <5> QED
          BY <1>5, <2>3, <3>2, <5>2, <5>3, <5>4
      <4>2. CASE a # b
        BY <1>2, <1>11, <2>3, <3>1, <4>2
      <4> QED
        BY <4>1, <4>2
    <3>4. m >= k
      <4>1. CASE m < k
        <5>1. m \in DOMAIN entrytab[a] /\ entrytab[a][m] = e
          BY <1>5, <1>14, <3>3, <4>1
        <5> QED
          BY <1>2, <1>14, <2>1, <4>1, <5>1
      <4> QED
        BY <1>5, <1>14, <3>3, <4>1
    <3>5. k \in DOMAIN t /\ k <= m /\ k # Len(entrytab[a]) /\ k + 1 \in DOMAIN entrytab[a]
      BY <1>5, <1>14, <3>3, <3>4
    <3>6. chain' = entrytab[a][k + 1] /\ t[k] = entrytab[a][k + 1]
      <4>1. chain' = entrytab[a][k + 1]
        BY <1>2, <3>5
      <4>2. k \in 1..Len(entrytab[a]) - 1 /\ ~(k < k)
        BY <1>5, <3>5
      <4>3. t[k] = entrytab[a][k + 1]
        BY <1>5, <4>2
      <4> QED
        BY <4>1, <4>3
    <3>7. chain' # END
      BY <1>2, <3>5, <3>6, WalkAssumption DEF WalkAssumption
    <3> QED
      BY <3>2, <3>5, <3>6, <3>7
  <2> QED
    BY <2>2, <2>3
<1>19. WalkInv'
  <2>1. chain' # END => a' < Bucket /\ a' = Home(chain, path[chain])'
    BY <1>1, <1>17 DEF Home
  <2>2. ASSUME NEW e \in Walked, path'[e] = "old"
        PROVE  \/ a' < Home(e, "old")'
               \/ /\ a' = Home(e, "old")'
                  /\ \A m \in DOMAIN entrytab'[a'] : entrytab'[a'][m] = e => NotPassed(m)'
    BY <1>1, <1>18, <2>2 DEF Home, NotPassed
  <2> QED
    BY <2>1, <2>2 DEF WalkInv
<1> QED
  BY <1>13, <1>16, <1>19 DEF WalkIInv

\* Everything that is under the old name is still before the walk: the walk reads
\* the next node before it moves an entry to the end of a list, maybe of the one
\* that it is in, and an entry that is moved twice has its new name both times.
THEOREM WalkInvariance == WalkSpec => []WalkIInv
<1>1. WalkInit => WalkIInv
  BY InitWalk
<1>2. WalkIInv /\ [WalkNext]_walkvars => WalkIInv'
  <2> SUFFICES ASSUME WalkIInv, [WalkNext]_walkvars
               PROVE  WalkIInv'
    OBVIOUS
  <2>1. CASE Visit
    BY <2>1, PassKeeps, MoveKeeps
  <2>2. CASE NextBucket
    BY <2>2, NextBucketKeeps
  <2>3. CASE UNCHANGED walkvars
    BY <2>3 DEF walkvars, WalkIInv, WalkTypeOK, TableInv, WalkInv,
       NotPassed, Home, Index, Place
  <2> QED
    BY <2>1, <2>2, <2>3 DEF WalkNext
<1>3. QED
  BY <1>1, <1>2, PTL DEF WalkSpec

\* FbxUpdatePaths: no entry below the directory is missed.
THEOREM AllRenamedHolds == WalkSpec => []AllRenamed
<1>1. WalkIInv => AllRenamed
  <2> SUFFICES ASSUME WalkIInv, a = Bucket, NEW e \in Walked
               PROVE  /\ path[e] # "old"
                      /\ e \in Range(entrytab[Home(e, path[e])])
    BY DEF AllRenamed
  <2>1. \A p \in Place : Home(e, p) \in Index /\ Home(e, p) \in 0..Bucket - 1
    BY BucketTypes DEF WalkIInv
  <2>2. path[e] # "old"
    <3>1. Home(e, "old") \in 0..Bucket - 1 /\ Bucket \in Nat
      BY <2>1, WalkAssumption DEF Place, WalkAssumption
    <3> QED
      BY <3>1 DEF WalkIInv, WalkInv
  <2>3. In(entrytab[Home(e, path[e])], e)
    <3>1. Home(e, path[e]) \in Index
      BY <2>1, BucketTypes DEF WalkIInv
    <3> QED
      BY <3>1, BucketNodes DEF WalkIInv
  <2> QED
    BY <2>2, <2>3 DEF In, Range
<1>2. QED
  BY <1>1, WalkInvariance, PTL

\* A walk changes the places of entries in one way only.
Renamed(before) == [e \in DOMAIN before |-> IF before[e] = "old" THEN "new" ELSE before[e]]

Partly(before) ==
  /\ before \in [Walked -> {"old", "elsewhere"}]
  /\ \A e \in Walked : path[e] \in {before[e], Renamed(before)[e]}

\* FbxUpdatePaths as a whole: when it returns, what was below the old name is
\* below the new one and nothing else has moved.
THEOREM WalkRenames ==
  ASSUME NEW before
  PROVE  WalkSpec /\ path = before => [](a = Bucket => path = Renamed(before))
<1>1. WalkInit /\ path = before => Partly(before)
  BY DEF WalkInit, Partly
<1>2. Partly(before) /\ WalkIInv /\ [WalkNext]_walkvars => Partly(before)'
  <2> SUFFICES ASSUME Partly(before), WalkIInv, [WalkNext]_walkvars
               PROVE  Partly(before)'
    OBVIOUS
  <2>1. CASE path' = path
    BY <2>1 DEF Partly
  <2>2. CASE path' # path
    <3>1. /\ Matches(chain) /\ path' = [path EXCEPT ![chain] = "new"]
          /\ path \in [Walked -> Place] /\ chain # END /\ chain \in Walked \cup {END}
      BY <2>2 DEF WalkNext, Visit, NextBucket, walkvars, WalkIInv, WalkTypeOK
    <3>2. path[chain] = "old" \/ path[chain] = "new"
      BY <3>1 DEF Matches
    <3>3. before[chain] = "old"
      BY <3>1, <3>2 DEF Partly, Renamed
    <3>4. \A e \in Walked : path'[e] \in {before[e], Renamed(before)[e]}
      BY <3>1, <3>3 DEF Partly, Renamed
    <3> QED
      BY <3>4 DEF Partly
  <2> QED
    BY <2>1, <2>2
<1>3. Partly(before) /\ WalkIInv /\ AllRenamed => (a = Bucket => path = Renamed(before))
  <2> SUFFICES ASSUME Partly(before), WalkIInv, AllRenamed, a = Bucket
               PROVE  path = Renamed(before)
    OBVIOUS
  <2>1. path \in [Walked -> Place] /\ DOMAIN Renamed(before) = Walked
    BY DEF WalkIInv, WalkTypeOK, Partly, Renamed
  <2>2. ASSUME NEW e \in Walked PROVE path[e] = Renamed(before)[e]
    BY <2>2 DEF Partly, Renamed, AllRenamed
  <2> QED
    BY <2>1, <2>2 DEF Renamed
<1>4. QED
  BY <1>1, <1>2, <1>3, WalkInvariance, AllRenamedHolds, PTL DEF WalkSpec

\* Where the walk of a rename of p to q sees the paths of the volume's entries.
PlaceOf(p, q, x) ==
  IF FbxIsParent(p, x) THEN "old" ELSE IF FbxIsParent(q, x) THEN "new" ELSE "elsewhere"

Seen(entries, p, q) ==
  [e \in {x \in Entry : entries[x].vol = currvol} |-> PlaceOf(p, q, entries[e].path)]

\* FbxRenameObject takes the walk as one step: the walk begins in a state that it
\* may begin in, with no entry below the new name, and what FbxUpdatePaths of
\* FbxLocks does to the entries is what the walk has done when it is over.
THEOREM RenameIsTheWalk ==
  ASSUME IInv, NamesInv, NEW p \in Path, NEW q \in Path, p # q, FbxRenameObject(p, q)
  PROVE  LET before == Seen(entry, p, q)
             after  == [e \in DOMAIN before |-> PlaceOf(p, q, entry'[e].path)]
         IN  /\ before \in [DOMAIN before -> {"old", "elsewhere"}]
             /\ after = Renamed(before)
<1>1. /\ currvol # NULL /\ ~FbxIsParent(p, q) /\ tree[p].type # "none"
      /\ tree[q].type = "none" /\ p \in Seq(STRING) /\ q \in Seq(STRING)
      /\ \A x \in Entry : entry[x].path \in Path /\ entry[x].type # "none"
  BY PathsAreSequences DEF FbxRenameObject, OkVolume, IInv, TypeOK, EntryRecord, TargetFree,
     Exists, CanMove
<1>2. \A x \in Path : FbxIsParent(q, x) => tree[x].type = "none"
  BY <1>1 DEF NamesInv, ClosedTree
<1>3. ASSUME NEW x \in Entry, entry[x].vol = currvol
      PROVE  ~FbxIsParent(q, entry[x].path)
  BY <1>1, <1>2, <1>3 DEF NamesInv, EntryKeepsObject, OkVolume
<1>4. ~FbxIsParent(q, p) /\ ~FbxIsParent(p, p) /\ ~FbxIsParent(q, q)
  BY <1>1, <1>2, ParentOrder
<1>5. ASSUME NEW x \in Entry, entry[x].vol = currvol
      PROVE  PlaceOf(p, q, entry'[x].path)
               = IF FbxIsParent(p, entry[x].path) THEN "new" ELSE "elsewhere"
  <2>1. PICK y \in Path : y = entry[x].path
    BY <1>1
  <2>2. entry'[x].path = NewName(p, q, y)
    BY <1>5, <2>1, RenamedEntries
  <2>3. y \in Seq(STRING) /\ ~FbxIsParent(q, y)
    BY <1>3, <1>5, <2>1, PathsAreSequences
  <2>4. CASE FbxIsParent(p, y)
    <3> DEFINE z == Rebase(p, q, y)
    <3>1. z \in Seq(STRING) /\ FbxIsParent(q, z)
      BY <1>1, <2>3, <2>4, RebaseMoves
    <3>2. entry'[x].path = z
      BY <2>2, <2>4 DEF NewName
    <3> HIDE DEF z
    <3>3. ~FbxIsParent(p, z)
      BY <1>1, <1>4, <3>1, ParentOrder
    <3> QED
      BY <2>1, <2>4, <3>1, <3>2, <3>3 DEF PlaceOf
  <2>5. CASE ~FbxIsParent(p, y) /\ y = p
    <3>1. entry'[x].path = q
      BY <1>1, <2>2, <2>5, RebaseMoves DEF NewName
    <3> QED
      BY <1>1, <1>4, <2>1, <2>5, <3>1 DEF PlaceOf
  <2>6. CASE ~FbxIsParent(p, y) /\ y # p
    BY <2>1, <2>2, <2>3, <2>6 DEF PlaceOf, NewName
  <2> QED
    BY <2>4, <2>5, <2>6
<1> DEFINE before == Seen(entry, p, q)
           after  == [e \in DOMAIN before |-> PlaceOf(p, q, entry'[e].path)]
<1>6. /\ DOMAIN before = {x \in Entry : entry[x].vol = currvol}
      /\ \A x \in DOMAIN before :
           before[x] = IF FbxIsParent(p, entry[x].path) THEN "old" ELSE "elsewhere"
  BY <1>3 DEF Seen, PlaceOf
<1>7. before \in [DOMAIN before -> {"old", "elsewhere"}]
  BY <1>6 DEF Seen
<1>8. after = Renamed(before)
  <2>1. \A x \in DOMAIN before : after[x] = Renamed(before)[x]
    BY <1>5, <1>6 DEF Renamed
  <2> QED
    BY <2>1 DEF Renamed
<1> QED
  BY <1>7, <1>8
=============================================================================
