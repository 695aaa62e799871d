------------------------------- MODULE FbxLocks -------------------------------
(***************************************************************************)
(* The object table of one filesysbox handler: entries (struct FbxEntry),  *)
(* the AmigaDOS locks and file handles on them (struct FbxLock), the       *)
(* notify requests attached to them (struct FbxNotifyNode) and the volumes *)
(* that own all three (struct FbxVolume).                                  *)
(*                                                                         *)
(* The handler process serves one packet at a time, so every packet is one *)
(* atomic step.  Steps of different clients interleave freely, and the     *)
(* volume can be taken away (CleanupVolume) between any two packets while  *)
(* clients still hold locks on it.                                         *)
(*                                                                         *)
(* A failed memory allocation or backend call is a disjunct that does      *)
(* whatever the code does before it returns.  Failures that change nothing *)
(* are stuttering steps and are not written down.                          *)
(***************************************************************************)
EXTENDS Naturals, SequencesExt

CONSTANTS
  Path,           \* object names, as sequences of directory components
  Inode,          \* st_ino values the backend gives to objects
  Disk,           \* directory trees that an inserted disk may hold
  Entry,          \* addresses of FbxEntry structures
  Lock,           \* addresses of FbxLock structures
  Request,        \* NotifyRequest structures of the clients
  Volume,         \* FbxVolume structures, one for every mount of a disk
  NULL,
  Protection,     \* the write protection settings that disks and users choose
  UseIno,         \* FBXF_USE_INO is set
  HasMknod,       \* the backend implements mknod
  CaseSensitive   \* the volume reports ST_CASE_SENSITIVE

SHARED_LOCK    == "shared"
EXCLUSIVE_LOCK == "exclusive"
BAD_MODE       == "bad"       \* any other value found in an ACTION_CHANGE_MODE
Access         == {SHARED_LOCK, EXCLUSIVE_LOCK, BAD_MODE}

NoNode == [type |-> "none", ino |-> NULL]
Node   == [type : {"none", "file", "dir"}, ino : Inode \cup {NULL}]
Tree   == [Path -> Node]
Root   == <<>>

\* FbxIsParent: parent names a directory somewhere above child.
FbxIsParent(parent, child) == IsStrictPrefix(parent, child)

\* The name of the object at p once the directory old has become new.
Rebase(old, new, p) == new \o SubSeq(p, Len(old) + 1, Len(p))

\* Whatever exists has directories above it.
ClosedTree(t) ==
  \A p, q \in Path : FbxIsParent(q, p) /\ t[p].type # "none" => t[q].type = "dir"

ASSUME PathAssumption ==
  /\ Path \subseteq Seq(STRING)
  /\ Root \in Path
  /\ \A p \in Path : \A n \in 0..Len(p) : SubSeq(p, 1, n) \in Path

ASSUME DiskAssumption == Disk \subseteq {t \in Tree : ClosedTree(t)}

ASSUME FlagAssumption ==
  /\ Protection \subseteq BOOLEAN
  /\ UseIno \in BOOLEAN /\ HasMknod \in BOOLEAN /\ CaseSensitive \in BOOLEAN

ASSUME NullAssumption ==
  NULL \notin Entry \cup Lock \cup Request \cup Volume \cup Inode

VARIABLES
  tree,           \* what the backend stores on the mounted disk
  readonly,       \* FBXVF_READ_ONLY in the current volume's vflags
  writeprotect,   \* the current volume's writeprotect
  currvol,        \* fs->currvol, NULL for NULL and its two error sentinels
  volumelist,     \* fs->volumelist: offline volumes that are still in use
  freed,          \* volumes whose memory was given back
  shutdown,       \* fs->shutdown: the event loop ends
  entry,          \* [Entry -> EntryRecord], vol = NULL for a free structure
  lock,           \* [Lock -> LockRecord], entry = NULL for a free structure
  notify          \* [Request -> NotifyRecord], vol = NULL when not queued

vars == <<tree, readonly, writeprotect, currvol, volumelist, freed, shutdown,
          entry, lock, notify>>
backend == <<tree, readonly, writeprotect>>
volumes == <<currvol, volumelist, freed, shutdown>>

EntryRecord == [vol : Volume \cup {NULL}, path : Path, type : {"file", "dir"},
                xlock : BOOLEAN, diskkey : Inode \cup {NULL}]
LockRecord == [entry : Entry \cup {NULL}, fsvol : Volume \cup {NULL},
               access : Access, info : BOOLEAN, fh : BOOLEAN]
NotifyRecord == [vol : Volume \cup {NULL}, entry : Entry \cup {NULL},
                 path : Path]

NoEntry  == [vol |-> NULL, path |-> Root, type |-> "dir", xlock |-> FALSE,
             diskkey |-> NULL]
NoLock   == [entry |-> NULL, fsvol |-> NULL, access |-> SHARED_LOCK,
             info |-> FALSE, fh |-> FALSE]
NoNotify == [vol |-> NULL, entry |-> NULL, path |-> Root]

-----------------------------------------------------------------------------
(* The backend (FUSE operations), as far as the handlers depend on it *)

Exists(p) == tree[p].type # "none"

\* mknod, mkdir and create make an object in an existing directory and give
\* it an inode that no other object has.
CanCreate(p, ino) ==
  /\ p # Root /\ ~Exists(p) /\ tree[Front(p)].type = "dir"
  /\ \A q \in Path : tree[q].ino # ino

\* unlink removes a file, rmdir an empty directory.
CanRemove(p) ==
  Exists(p) /\ \A q \in Path : FbxIsParent(p, q) => ~Exists(q)

\* link gives a file a second name with the same inode.
CanLink(target, p) ==
  /\ p # Root /\ ~Exists(p) /\ tree[Front(p)].type = "dir"
  /\ tree[target].type = "file"

\* rename moves an object with everything below it.
CanMove(p, q) == Exists(p) /\ tree[Front(q)].type = "dir"

MovedTree(p, q) ==
  [x \in Path |->
     IF x = q \/ FbxIsParent(q, x)
     THEN IF Rebase(q, p, x) \in Path THEN tree[Rebase(q, p, x)] ELSE NoNode
     ELSE IF x = p \/ FbxIsParent(p, x) THEN NoNode ELSE tree[x]]

-----------------------------------------------------------------------------
(* Lists and checks shared by the packet handlers *)

OkVolume == currvol # NULL                       \* CHECKVOLUME

WritableUnlessReadOnly == ~readonly              \* mutant of Writable
Writable == ~readonly /\ ~writeprotect           \* CHECKWRITABLE

LockList(e) == {l \in Lock : lock[l].entry = e}

NoLocksAssumed(locks, vol) == TRUE               \* mutant of NoLocksOn
NoLocksOn(locks, vol) == \A l \in Lock : locks[l].fsvol # vol

\* A client's own lock: CHECKLOCK and the comparison of fsvol with currvol.
OnCurrent(l) == OkVolume /\ lock[l].fsvol = currvol

FbxFindEntry(p) ==
  {e \in Entry : entry[e].vol = currvol /\ entry[e].path = p}

\* e is the entry of p, or, when p has none, a structure to allocate for it.
EntryFor(e, p) ==
  IF FbxFindEntry(p) = {} THEN entry[e].vol = NULL ELSE e \in FbxFindEntry(p)

FbxSetupEntry(p, type, ino) ==
  [vol |-> currvol, path |-> p, type |-> type, xlock |-> FALSE,
   diskkey |-> IF UseIno THEN ino ELSE NULL]

\* The contents of e before it is locked: found in the table or set up.
Looked(e, p, type, ino) ==
  IF FbxFindEntry(p) = {} THEN FbxSetupEntry(p, type, ino) ELSE entry[e]

\* FbxLockEntry grants shared locks where exclusive ones are not allowed.
LockMode(rec, mode) == IF rec.type = "dir" THEN SHARED_LOCK ELSE mode

\* Mutant of CanLock: shared locks are granted next to an exclusive one.
CanLockAnyway(e, rec, mode) ==
  LockMode(rec, mode) = EXCLUSIVE_LOCK => LockList(e) = {}

CanLock(e, rec, mode) ==
  /\ ~rec.xlock
  /\ LockMode(rec, mode) = EXCLUSIVE_LOCK => LockList(e) = {}

Locked(rec, mode) ==
  [rec EXCEPT !.xlock = @ \/ LockMode(rec, mode) = EXCLUSIVE_LOCK]

\* A new lock, opened as a file handle or not.
NewLock(e, rec, mode, opened) ==
  [entry |-> e, fsvol |-> currvol, access |-> LockMode(rec, mode),
   info |-> opened, fh |-> opened]

\* Mutant of FbxCleanupEntry: the notify list is forgotten.
CleanupUnlocked(entries, locks, notifies, e) ==
  IF \E l \in Lock : locks[l].entry = e
  THEN entries
  ELSE [entries EXCEPT ![e] = NoEntry]

\* An entry goes when its lock list and its notify list are both empty.
FbxCleanupEntry(entries, locks, notifies, e) ==
  IF \/ \E l \in Lock : locks[l].entry = e
     \/ \E n \in Request : notifies[n].entry = e
  THEN entries
  ELSE [entries EXCEPT ![e] = NoEntry]

\* FbxLockEntry on e, holding rec, succeeds: l is its new lock.
FbxLockEntry(l, e, rec, mode, opened) ==
  /\ CanLock(e, rec, mode)
  /\ lock[l] = NoLock
  /\ lock' = [lock EXCEPT ![l] = NewLock(e, rec, mode, opened)]
  /\ entry' = [entry EXCEPT ![e] = Locked(rec, mode)]

\* The lock is refused or cannot be allocated; the caller cleans e up.
LockEntryFails(e, rec) ==
  /\ entry' = FbxCleanupEntry([entry EXCEPT ![e] = rec], lock, notify, e)
  /\ UNCHANGED lock

\* The lock is granted, but the backend fails to open the file: FbxEndLock
\* and FbxCleanupEntry undo the lock, not what FbxLockEntry did to the entry.
OpenLockFails(e, rec, mode) ==
  CanLock(e, rec, mode) /\ LockEntryFails(e, Locked(rec, mode))

\* FbxEndLock also frees an offline volume that held its last lock.
FbxEndLock(l) ==
  LET vol == lock[l].fsvol IN
  /\ lock' = [lock EXCEPT ![l] = NoLock]
  /\ IF vol # currvol /\ NoLocksOn(lock', vol)
     THEN /\ volumelist' = volumelist \ {vol}
          /\ freed' = freed \cup {vol}
     ELSE UNCHANGED <<volumelist, freed>>
  /\ UNCHANGED <<currvol, shutdown>>

EndLockAndCleanup(l) ==
  /\ FbxEndLock(l)
  /\ entry' = FbxCleanupEntry(entry, lock', notify, lock[l].entry)

\* Queued requests for path p that wait for the object to appear go to e.
FbxTryResolveNotify(notifies, e, p) ==
  [n \in Request |->
     IF /\ notifies[n].vol = currvol
        /\ notifies[n].entry = NULL
        /\ notifies[n].path = p
     THEN [notifies[n] EXCEPT !.entry = e]
     ELSE notifies[n]]

FbxUnResolveNotifys(e) ==
  [n \in Request |-> IF notify[n].entry = e
                     THEN [notify[n] EXCEPT !.entry = NULL]
                     ELSE notify[n]]

-----------------------------------------------------------------------------
(* Packets that make locks *)

\* Mutant of FbxLocateObject: an error from getattr is ignored.
LocateUnchecked(p, mode, l, e) ==
  /\ OkVolume /\ EntryFor(e, p)
  /\ LET rec == Looked(e, p, tree[p].type, tree[p].ino) IN
     \/ FbxLockEntry(l, e, rec, mode, FALSE)
     \/ LockEntryFails(e, rec)
  /\ UNCHANGED <<backend, volumes, notify>>

\* FbxInternalLocateObject: the path comes from a lock on the current volume
\* (or none) and a name, and any object can be named from any lock.
FbxLocateObject(p, mode, l, e) ==
  /\ OkVolume /\ Exists(p) /\ EntryFor(e, p)
  /\ LET rec == Looked(e, p, tree[p].type, tree[p].ino) IN
     \/ FbxLockEntry(l, e, rec, mode, FALSE)
     \/ LockEntryFails(e, rec)
  /\ UNCHANGED <<backend, volumes, notify>>

\* A duplicate is always shared.
FbxDupLock(l, new) ==
  /\ OnCurrent(l)
  /\ LET e == lock[l].entry IN
     FbxLockEntry(new, e, entry[e], SHARED_LOCK, FALSE)
  /\ UNCHANGED <<backend, volumes, notify>>

FbxLocateParent(l, new, e) ==
  /\ OnCurrent(l)
  /\ LET p == entry[lock[l].entry].path IN
     p # Root /\ FbxLocateObject(Front(p), SHARED_LOCK, new, e)

\* The directory is made first; what fails after that leaves it on the disk,
\* and leaves notify requests for it resolved once the entry was set up.
FbxCreateDir(p, ino, l, e) ==
  /\ OkVolume /\ Writable
  /\ FbxFindEntry(p) = {}
  /\ CanCreate(p, ino)
  /\ tree' = [tree EXCEPT ![p] = [type |-> "dir", ino |-> ino]]
  /\ \/ UNCHANGED <<entry, lock, notify>>
     \/ /\ EntryFor(e, p)
        /\ notify' = FbxTryResolveNotify(notify, e, p)
        /\ LET rec == FbxSetupEntry(p, "dir", ino) IN
           \/ FbxLockEntry(l, e, rec, SHARED_LOCK, FALSE)
           \/ /\ entry' = FbxCleanupEntry([entry EXCEPT ![e] = rec],
                                           lock, notify', e)
              /\ UNCHANGED lock
  /\ UNCHANGED <<readonly, writeprotect, volumes>>

-----------------------------------------------------------------------------
(* Packets that open and close files *)

OpenMode == {"MODE_OLDFILE", "MODE_NEWFILE", "MODE_READWRITE"}

OpenLockMode(mode) ==
  IF mode = "MODE_NEWFILE" THEN EXCLUSIVE_LOCK ELSE SHARED_LOCK

\* FbxOpenFile on an existing file, which MODE_NEWFILE truncates before the
\* lock is asked for.
OpenExisting(p, mode, l, e) ==
  /\ OkVolume /\ tree[p].type = "file" /\ EntryFor(e, p)
  /\ mode = "MODE_NEWFILE" => LockList(e) = {} /\ Writable
  /\ LET rec == Looked(e, p, "file", tree[p].ino)
         lm  == OpenLockMode(mode) IN
     /\ rec.type = "file"
     /\ \/ /\ FbxLockEntry(l, e, rec, lm, TRUE)
           /\ notify' = IF mode = "MODE_NEWFILE"
                        THEN FbxTryResolveNotify(notify, e, p)
                        ELSE notify
        \/ LockEntryFails(e, rec) /\ UNCHANGED notify
        \/ OpenLockFails(e, rec, lm) /\ UNCHANGED notify
  /\ UNCHANGED <<backend, volumes>>

\* FbxOpenFile on a missing file.  mknod makes the file before there is an
\* entry and a lock for it, so it stays when those fail; without mknod the
\* backend's create makes it when everything else is done, and the inode it
\* got is not asked for.
OpenCreate(p, mode, ino, l, e) ==
  /\ OkVolume /\ Writable
  /\ mode # "MODE_OLDFILE"
  /\ FbxFindEntry(p) = {}
  /\ CanCreate(p, ino)
  /\ tree' = [tree EXCEPT ![p] = [type |-> "file", ino |-> ino]]
  /\ \/ HasMknod /\ UNCHANGED <<entry, lock, notify>>
     \/ /\ EntryFor(e, p)
        /\ LET rec == FbxSetupEntry(p, "file",
                                    IF HasMknod THEN ino ELSE NULL) IN
           FbxLockEntry(l, e, rec, OpenLockMode(mode), TRUE)
        /\ notify' = FbxTryResolveNotify(notify, e, p)
  /\ UNCHANGED <<readonly, writeprotect, volumes>>

FbxOpenFile(p, mode, ino, l, e) ==
  OpenExisting(p, mode, l, e) \/ OpenCreate(p, mode, ino, l, e)

\* Mutant of FbxOpenFromLock: fsvol is not compared with currvol.
OpenOffline(l) ==
  /\ lock[l].entry # NULL
  /\ entry[lock[l].entry].type = "file"
  /\ ~lock[l].info
  /\ lock' = [lock EXCEPT ![l].info = TRUE, ![l].fh = TRUE]
  /\ UNCHANGED <<backend, volumes, entry, notify>>

\* FbxOpenLock for a client's lock, which becomes the file handle.
FbxOpenFromLock(l) ==
  /\ OnCurrent(l)
  /\ entry[lock[l].entry].type = "file"
  /\ ~lock[l].info
  /\ lock' = [lock EXCEPT ![l].info = TRUE, ![l].fh = TRUE]
  /\ UNCHANGED <<backend, volumes, entry, notify>>

\* A file handle can be closed after its volume has gone.
FbxCloseFile(l) ==
  /\ lock[l].entry # NULL /\ lock[l].fh
  /\ EndLockAndCleanup(l)
  /\ UNCHANGED <<backend, notify>>

\* A client unlocks what it holds as a lock, never what a file handle owns.
FbxUnLockObject(l) ==
  /\ lock[l].entry # NULL /\ ~lock[l].fh
  /\ EndLockAndCleanup(l)
  /\ UNCHANGED <<backend, notify>>

\* The access of the only lock on an object may change; an unknown mode is
\* refused after it was stored.
FbxChangeMode(l, mode) ==
  /\ OnCurrent(l)
  /\ LockList(lock[l].entry) = {l}
  /\ lock' = [lock EXCEPT ![l].access = mode]
  /\ entry' = IF mode = BAD_MODE THEN entry
              ELSE [entry EXCEPT ![lock[l].entry].xlock =
                                   (mode = EXCLUSIVE_LOCK)]
  /\ UNCHANGED <<backend, volumes, notify>>

-----------------------------------------------------------------------------
(* Packets that change the name space *)

\* An object without locks is removed; requests attached to its entry wait
\* for the next object of that name.
FbxDeleteObject(p) ==
  /\ OkVolume /\ Writable
  /\ p # Root
  /\ CanRemove(p)
  /\ tree' = [tree EXCEPT ![p] = NoNode]
  /\ \/ FbxFindEntry(p) = {} /\ UNCHANGED <<entry, notify>>
     \/ \E e \in FbxFindEntry(p) :
          /\ LockList(e) = {}
          /\ notify' = FbxUnResolveNotifys(e)
          /\ entry' = FbxCleanupEntry(entry, lock, notify', e)
  /\ UNCHANGED <<readonly, writeprotect, volumes, lock>>

PathsKept(entries, p, q) == entries              \* mutant of FbxUpdatePaths

\* FbxUpdatePaths: every entry below the renamed object gets its new name.
FbxUpdatePaths(entries, p, q) ==
  [x \in Entry |-> IF entries[x].vol = currvol /\ FbxIsParent(p, entries[x].path)
                   THEN [entries[x] EXCEPT !.path = Rebase(p, q, @)]
                   ELSE entries[x]]

\* A rename onto itself changes the spelling of a name, or nothing.
TargetUnchecked(p, q) == p = q => ~CaseSensitive \* mutant of TargetFree
TargetFree(p, q) ==
  IF p = q THEN ~CaseSensitive ELSE FbxFindEntry(q) = {} /\ ~Exists(q)

\* p and q are the same path when only the spelling of the name changes.
\* Bound: every name in use below p has its counterpart below q in Path.
FbxRenameObject(p, q) ==
  /\ OkVolume /\ Writable
  /\ p # Root /\ q # Root
  /\ ~FbxIsParent(p, q)
  /\ TargetFree(p, q)
  /\ CanMove(p, q)
  /\ \A x \in Path : FbxIsParent(p, x) /\ (Exists(x) \/ FbxFindEntry(x) # {})
                     => Rebase(p, q, x) \in Path
  /\ tree' = IF p = q THEN tree ELSE MovedTree(p, q)
  /\ \/ /\ FbxFindEntry(p) = {}
        /\ entry' = FbxUpdatePaths(entry, p, q)
        /\ UNCHANGED notify
     \/ \E e \in FbxFindEntry(p) :
          /\ entry' = FbxUpdatePaths([entry EXCEPT ![e].path = q], p, q)
          /\ notify' = FbxTryResolveNotify(FbxUnResolveNotifys(e), e, q)
  /\ UNCHANGED <<readonly, writeprotect, volumes, lock>>

\* A hard link gives the object of lock l a second name.
FbxMakeHardLink(p, l) ==
  /\ OnCurrent(l) /\ Writable
  /\ LET target == entry[lock[l].entry].path IN
     /\ ~FbxIsParent(target, p)
     /\ CanLink(target, p)
     /\ tree' = [tree EXCEPT ![p] = tree[target]]
  /\ UNCHANGED <<readonly, writeprotect, volumes, entry, lock, notify>>

-----------------------------------------------------------------------------
(* Notify requests *)

\* A request for a missing object is refused: the test for it looks at the
\* result of an earlier packet, never -ENOENT.  When the node cannot be
\* allocated, the entry set up for it stays.
FbxAddNotify(n, p, e) ==
  /\ OkVolume /\ Exists(p) /\ EntryFor(e, p)
  /\ notify[n] = NoNotify
  /\ entry' = [entry EXCEPT ![e] = Looked(e, p, tree[p].type, tree[p].ino)]
  /\ \/ notify' = [notify EXCEPT ![n] = [vol |-> currvol, entry |-> e,
                                         path |-> p]]
     \/ UNCHANGED notify
  /\ UNCHANGED <<backend, volumes, lock>>

FbxRemoveNotify(n) ==
  /\ ~shutdown
  /\ notify[n] # NoNotify
  /\ notify' = [notify EXCEPT ![n] = NoNotify]
  /\ entry' = IF notify[n].entry = NULL THEN entry
              ELSE FbxCleanupEntry(entry, lock, notify', notify[n].entry)
  /\ UNCHANGED <<backend, volumes, lock>>

-----------------------------------------------------------------------------
(* Volumes *)

FbxWriteProtect(on) ==
  /\ OkVolume
  /\ writeprotect' = on
  /\ UNCHANGED <<tree, readonly, volumes, entry, lock, notify>>

\* A disk is mounted by the event loop.
FbxSetupVolume(vol, disk, ro) ==
  /\ ~OkVolume /\ ~shutdown
  /\ vol \notin volumelist \cup freed
  /\ currvol' = vol
  /\ tree' = disk
  /\ readonly' = ro
  /\ writeprotect' = FALSE
  /\ UNCHANGED <<volumelist, freed, shutdown, entry, lock, notify>>

\* The disk is removed, inhibited or formatted.  Open files are released,
\* and a volume that is still referenced stays on volumelist.
FbxCleanupVolume ==
  /\ OkVolume
  /\ lock' = [l \in Lock |-> IF lock[l].fsvol = currvol
                             THEN [lock[l] EXCEPT !.info = FALSE]
                             ELSE lock[l]]
  /\ IF /\ NoLocksOn(lock, currvol)
        /\ \A n \in Request : notify[n].vol # currvol
     THEN freed' = freed \cup {currvol} /\ UNCHANGED volumelist
     ELSE volumelist' = volumelist \cup {currvol} /\ UNCHANGED freed
  /\ currvol' = NULL
  /\ UNCHANGED <<backend, shutdown, entry, notify>>

\* Shutdown, when no reference to the FSSM is out: the volumes are taken down
\* with the locks and requests on their lists, which the lock handler process
\* adopts, and the event loop ends.
FbxDie ==
  LET gone == (volumelist \cup {currvol}) \ {NULL}
      held == {lock[l].entry : l \in {k \in Lock : lock[k].fsvol \in gone}}
                \cup {notify[n].entry : n \in {m \in Request : notify[m].vol \in gone}}
  IN
  /\ ~shutdown
  /\ lock' = [l \in Lock |-> IF lock[l].fsvol \in gone THEN NoLock ELSE lock[l]]
  /\ notify' = [n \in Request |->
                  IF notify[n].vol \in gone THEN NoNotify ELSE notify[n]]
  /\ entry' = [e \in Entry |-> IF e \in held THEN NoEntry ELSE entry[e]]
  /\ freed' = freed \cup gone
  /\ volumelist' = {} /\ currvol' = NULL
  /\ shutdown' = TRUE
  /\ UNCHANGED backend

-----------------------------------------------------------------------------
Init ==
  /\ tree \in Disk /\ readonly = FALSE /\ writeprotect = FALSE
  /\ currvol = NULL /\ volumelist = {} /\ freed = {} /\ shutdown = FALSE
  /\ entry = [e \in Entry |-> NoEntry]
  /\ lock = [l \in Lock |-> NoLock]
  /\ notify = [n \in Request |-> NoNotify]

Next ==
  \/ \E p \in Path, l \in Lock, e \in Entry :
       \/ \E mode \in {SHARED_LOCK, EXCLUSIVE_LOCK} : FbxLocateObject(p, mode, l, e)
       \/ \E ino \in Inode : FbxCreateDir(p, ino, l, e)
       \/ \E mode \in OpenMode, ino \in Inode : FbxOpenFile(p, mode, ino, l, e)
  \/ \E l \in Lock :
       \/ \E new \in Lock : FbxDupLock(l, new)
       \/ \E new \in Lock, e \in Entry : FbxLocateParent(l, new, e)
       \/ FbxOpenFromLock(l) \/ FbxCloseFile(l) \/ FbxUnLockObject(l)
       \/ \E mode \in Access : FbxChangeMode(l, mode)
  \/ \E p \in Path : FbxDeleteObject(p)
  \/ \E p \in Path, l \in Lock : FbxMakeHardLink(p, l)
  \/ \E p, q \in Path : FbxRenameObject(p, q)
  \/ \E n \in Request :
       \/ \E p \in Path, e \in Entry : FbxAddNotify(n, p, e)
       \/ FbxRemoveNotify(n)
  \/ \E on \in Protection : FbxWriteProtect(on)
  \/ \E vol \in Volume, disk \in Disk, ro \in Protection : FbxSetupVolume(vol, disk, ro)
  \/ FbxCleanupVolume
  \/ FbxDie

Spec == Init /\ [][Next]_vars

-----------------------------------------------------------------------------
(* Properties *)

\* Every variable holds what its C declaration allows.
TypeOK ==
  /\ tree \in Tree /\ readonly \in BOOLEAN /\ writeprotect \in BOOLEAN
  /\ currvol \in Volume \cup {NULL}
  /\ volumelist \subseteq Volume /\ freed \subseteq Volume
  /\ shutdown \in BOOLEAN
  /\ entry \in [Entry -> EntryRecord]
  /\ lock \in [Lock -> LockRecord]
  /\ notify \in [Request -> NotifyRecord]

\* FbxLockEntry and FbxChangeMode together: whoever holds an exclusive lock
\* holds the only lock on the object, whatever opens, duplicates, failed
\* opens and changes of mode came before.
ExclusiveAlone ==
  \A l, k \in Lock :
    /\ lock[l].entry # NULL /\ lock[k].entry = lock[l].entry
    /\ lock[l].access = EXCLUSIVE_LOCK
    => k = l

\* A structure in use is never freed under its users, although entries and
\* volumes have no reference counts and are freed by whoever finds a list
\* empty: a lock's entry is in the table of the lock's volume and the volume
\* is current or on volumelist; the entry of a queued request is in the table
\* of the request's volume.
NoDangling ==
  /\ \A l \in Lock : lock[l].entry # NULL =>
       /\ lock[l].fsvol # NULL /\ lock[l].fsvol \in volumelist \cup {currvol}
       /\ entry[lock[l].entry].vol = lock[l].fsvol
  /\ \A n \in Request : notify[n].entry # NULL =>
       notify[n].vol # NULL /\ entry[notify[n].entry].vol = notify[n].vol

\* No backend file handle outlives the mount it was opened on: after
\* CleanupVolume called destroy, no later close calls release again.
OpenOnCurrent ==
  \A l \in Lock : lock[l].info => OnCurrent(l) /\ lock[l].fh

\* FbxFindEntry can return only one entry: locks taken through different
\* packets on one object meet in the same lock list.
OneEntryPerPath ==
  OkVolume => \A p \in Path : \A e, f \in FbxFindEntry(p) : e = f

\* An entry of the current volume, and so every lock on it, keeps naming the
\* object it was set up for: while it is locked the object is neither deleted
\* nor replaced, renames of the object or of a directory above it carry the
\* entry along, and a deleted object leaves no entry behind for a new object.
EntryKeepsObject ==
  \A e \in Entry : OkVolume /\ entry[e].vol = currvol =>
    /\ tree[entry[e].path].type = entry[e].type
    /\ entry[e].diskkey # NULL => tree[entry[e].path].ino = entry[e].diskkey

\* Shutdown hands every lock to the lock handler: no lock is left that only
\* the dead file system could release.
ShutdownEndsLocks ==
  shutdown => \A l \in Lock : lock[l] = NoLock

\* Nothing but a new disk changes the tree of a protected volume, although
\* every handler that writes has to ask for itself, some of them only after
\* they have looked at the object.
ProtectedUnchanged ==
  [][(readonly \/ writeprotect) /\ currvol' = currvol => UNCHANGED tree]_vars

-----------------------------------------------------------------------------
(* The inductive invariant behind ExclusiveAlone, NoDangling, OpenOnCurrent *)

\* Free structures are blank, no volume is current and offline at once, and
\* none is either after shutdown.
Shape ==
  /\ currvol \notin volumelist
  /\ shutdown => currvol = NULL /\ volumelist = {}
  /\ \A e \in Entry : entry[e].vol = NULL => entry[e] = NoEntry
  /\ \A l \in Lock : lock[l].entry = NULL => lock[l] = NoLock
  /\ \A n \in Request : notify[n].vol = NULL => notify[n] = NoNotify

\* xlock may outlive the lock that set it, but covers every exclusive lock
\* and never more than one lock.
XlockSole ==
  /\ \A l \in Lock : lock[l].entry # NULL /\ lock[l].access = EXCLUSIVE_LOCK
                    => entry[lock[l].entry].xlock
  /\ \A l, k \in Lock : /\ lock[l].entry # NULL /\ lock[k].entry = lock[l].entry
                        /\ entry[lock[l].entry].xlock
                        => k = l

IInv == TypeOK /\ Shape /\ XlockSole /\ NoDangling /\ OpenOnCurrent

(* What OneEntryPerPath and EntryKeepsObject need besides *)

\* An entry can outlive its volume, but no new volume has its address.
VolumesKnown ==
  \A e \in Entry : entry[e].vol # NULL =>
    entry[e].vol \in volumelist \cup freed \cup {currvol}

NamesInv == ClosedTree(tree) /\ VolumesKnown /\ OneEntryPerPath /\ EntryKeepsObject
=============================================================================
