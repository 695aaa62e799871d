# TLA+ verification of filesysbox.library

filesysbox is a shared library for AmigaOS, MorphOS and AROS.  It lets a program
written against the FUSE API (the *backend*) act as an AmigaDOS file system
*handler*: AmigaDOS sends packets (locate, open, rename, notify, ...) to the
handler's message port, the library translates each packet into calls of the
backend's `fuse_operations`, and keeps all the AmigaDOS state that FUSE does not
know about: locks, file handles, notify requests, volume nodes.

The C sources are in the repository's `src/`; files are named below without it.

## 1. Inventory

| Part | State | Operations | What makes it correct |
|---|---|---|---|
| Object table: `filesysbox.c`, `fslock.c`, `fsduplock.c`, `fsparentdir.c`, `fsopen.c`, `fsopenfromlock.c`, `fsclose.c`, `fsunlock.c`, `fschangemode.c` | hash table of `FbxEntry`, `locklist` and `xlock` of each, `FbxLock` (entry, `fsvol`, access, open file) | locate, duplicate, parent, open, open from lock, close, unlock, change mode | an exclusive lock is alone; one entry per name; nothing in use is freed; an entry names its object |
| Name space: `fscreatedir.c`, `fsdelete.c`, `fsrename.c`, `fscreatehardlink.c`, `fscreatesoftlink.c` | the backend's tree, paths stored in the entries | create, delete, rename, link | entries follow their objects; protected disks are not written |
| Notification: `notify.c`, `fsaddnotify.c`, `fsremovenotify.c`, `FbxHandleNotifyReplies` | notify nodes on entries, on the volume's unresolved list; `nr_MsgCount`, `NRF_MAGIC` of a request | add, remove, resolve, unresolve, signal or send, handle a reply | no change is lost; at most one message of a request is out; nothing refers to a removed request |
| Volumes: `volume.c`, `diskchange.c`, `fsinhibit.c`, `fsformat.c`, `fsrelabel.c`, `FbxEventLoop.c` | `currvol` (a volume or the sentinels 0, -1, -2), `volumelist` of offline volumes, `dosetup`, `inhibit`, the modify times | mount, unmount, disk change, inhibit, format, relabel, flush | after any sequence of disk changes and inhibits the loop settles on the disk that is there; open files end with the mount |
| DOS list process: `doslist.c` | a queue of add, remove, rename commands | run a command at once when the list can be locked, or else queue it for a helper process | commands on a volume node take effect in order; a volume is freed only when it is off the list |
| Helper processes and library: `init.c`, `FbxSetupFS.c`, `FbxCleanupFS.c` | `dlproc`, `lhvolume` and their reference counts under `procsema` | start on first use, end on last, expunge | a running handler has both processes; they end when nobody needs them |
| Lock handler: `lockhandler.c`, `fsdie.c` | lists of orphaned locks and requests | adopt what a shutdown leaves, free it, answer other packets with errors | every lock a client holds is answered for until it is freed |
| Timers and signals: `timer.c`, `FbxInstallTimerCallback.c`, `FbxUninstallTimerCallback.c`, `FbxSetSignalCallback.c` | callback list, last call times, a 32-bit millisecond clock, the modify times, the signals of the backend | install, uninstall (also from a callback), timer tick, flush, set the signals | no callback after its removal; periods and flushes hold when the clock wraps; no signal is forgotten |
| Directory examination: `fsexamine*.c` | scan state kept in the lock between packets | first, next, all, end | each name once; state freed with the lock |
| File data: `fsread.c`, `fswrite.c`, `fsseek.c`, `fs*size.c`, `fs*position.c` | file position in the lock, size in the backend | read, write, seek, set size | nobody truncates a file under the position of another handle |
| Startup message: `fsobtainfssm.c` | a reference count | obtain, release | no shutdown while it is referenced |
| Dispatch: `dopacket.c`, `dopacket64.c` | none | packet type to handler | - |
| Metadata, query, version calls | none beyond the modify times | - | - |
| Text and numbers: `utf8.c`, `ucs4.c`, `codesets.c`, `avl.c`, `dofmt.c`, `strlcpy.c` | the table and the tree of the character set | bounded conversion and search | a name that is told comes back as the same name; what is cut is told; the tree is balanced |
| Debugging, wrappers, command line tools | none | - | - |

**How they interact.**  One process per handler runs `FbxEventLoop`: it sets the
volume up when `dosetup` says so, waits for signals, and serves packets, notify
replies, timer events and user signals one after the other.  So a packet handler
is never interrupted by another packet; what interleaves is *whole packets* of
different clients, and the events between them (disk removed, inhibit, timer,
shutdown).  Real concurrency exists in four places: interrupt code that signals a
disk change, other tasks that call the library's functions under `fssema`, the
DOS list process, and the lock handler process; the last two are shared by all
handlers and counted under `procsema`.

**What is hard.**  Locks and open files live across packets, and across the
removal of the disk they are on; entries and volumes have no reference count and
are freed by whoever finds a list empty, on about ten different paths; a handler
has several points at which it can fail after it has changed something; a request
waits for objects that do not exist yet; shutdown has to account for all of it.
`PROJECT.json` lists these under `hazards`, at their lines.

## 2. Modules

| Module | Models | Implements |
|---|---|---|
| `FbxLocks` | object table, name space, attachment of requests, mounts, shutdown | |
| `FbxVolume` | the event loop, disk changes, inhibits, format, shutdown | `FbxMount`: what a backend may rely on |
| `FbxDosList` | how handlers keep their volumes in the DOS list, with the helper process for it | |
| `FbxLibrary` | the library in memory, handlers that come and go, the two helpers and their counts | `FbxHelper`, twice: what a helper promises |
| `FbxLockHandler` | shutdown while programs hold objects and send packets, and the process that answers afterwards | `FbxObjects`: what a program may rely on |
| `FbxNotify` | the messages, signals and replies of notify requests | |
| `FbxRename` | the walk over the hash table that `FbxLocks` takes as one step | |
| `FbxTimer` | the clock, timer callbacks, flush of changed data, signals of the backend | |
| `FbxHandles` | `FbxFileIO` (positions and size of a file) and `FbxExamine` (scans of a directory) | |
| `FbxCharset` | the character set: `FbxAvl` (the tree), `FbxText` (the conversions) | |

`MC...` modules give the instances for TLC, `...Proofs` modules the theorems.
All modules name their actions after the function in the C source; a comment
`Mutant of X` marks a changed form of the definition after it, which is there to
show that a property notices the change and is used by no specification.

## 3. FbxLocks

One handler, its clients and its backend.

| TLA+ | C |
|---|---|
| `entry[e]`, `e` an address, `vol = NULL` for a free one | `struct FbxEntry` in the hash table of volume `vol`; `LockList(e)` is its `locklist` |
| `lock[l]` | `struct FbxLock`; `info` says that the backend has the file open, `fh` that AmigaDOS holds it as a file handle |
| `notify[n]` | the `FbxNotifyNode` of a client's request: on `vol`'s lists, resolved to `entry` or waiting with `NULL` |
| `currvol`, `volumelist` | `fs->currvol` (its three values that are no volume are `NULL`), `fs->volumelist` |
| `freed` | volumes whose memory went back; they are never used again |
| `tree`, `readonly`, `writeprotect` | what the backend stores, and the two reasons not to change it |

Each action is one packet (or one turn of the event loop) and is named after its
handler; its guard is the conjunction of the handler's early returns; each
partial failure (entry set up but no lock granted, lock granted but the backend's
`open` fails, object made but no memory for its entry) is a disjunct with what
the code has done by then.  `EntryFor(e, p)` is the pair "find the entry or
allocate one": the address `e` is an argument of the action, since the allocator
may return any free one.

Deliberate abstractions:

- Names are sequences of components.  Two spellings of a name are one path; a
  rename that only changes the case is a rename of `p` to `p`.
- A failure that changes nothing is a stutter and not written down.
- Any object can be named from any lock, so the lock that a path starts from is
  left out; `OnCurrent` remains for the packets that take only a lock.
- Clients follow AmigaDOS in two points: the lock inside a file handle ends with
  the handle only, and a lock that ended is not used again.
- `ACTION_LOCATE_OBJECT` asks for a shared or an exclusive lock; other values
  reach `FbxChangeMode` only.
- Soft links are left out: no entry is ever made for one.
- `FbxAddNotify` decides "the object does not exist" by `fs->r2`, which holds the
  result of an *earlier* packet and is never `-ENOENT`; so a request for a missing
  object is refused, and the model refuses it.  The comment next to it intends
  such requests to wait; requests do wait after their object was deleted.
- What a backend shows is a tree: an object has a directory above it (`ClosedTree`).
  It is assumed of the disks, and the theorem `NamesInvariance` proves it of everything the handlers make of them.
- `FbxDie` returns early while the startup message is referenced: a stutter.
- Memory that is freed and touched within the same step is not a state of this
  model.  `FbxUnLockObject` does it: `FbxEndLock` may free the volume, and
  `FbxCleanupEntry` then unlinks the entry from the hash table inside it
  (`fsunlock.c:28`).

### Properties

| Property | Says |
|---|---|
| `TypeOK` | types |
| `ExclusiveAlone` | whoever holds an exclusive lock holds the only lock on the object |
| `XlockSole` | (proved only) `xlock` covers each exclusive lock, and an entry marked with it has at most one lock |
| `NoDangling` | what a lock refers to, and the entry a request hangs on, is not freed |
| `OpenOnCurrent` | the backend has files open for the current mount only |
| `OneEntryPerPath` | one entry per name on the current volume |
| `EntryKeepsObject` | an entry names the object (type, inode) it was set up for |
| `ShutdownEndsLocks` | shutdown leaves no lock that only the dead handler could free |
| `ProtectedUnchanged` | no step but a mount changes a protected tree |

All are safety properties; no fairness is assumed anywhere in this module.  A
handler with no clients may idle for ever, so there is nothing to promise.

### Runs

| Run | Instance | Shows |
|---|---|---|
| `names` | two levels of names (5 paths), 2 other inodes, 3 entries, 2 locks, 1 request, 1 mount, with `mknod` | exclusion, uniqueness, entries following renames of a directory with an entry below it |
| `mounts` | 1 name, 2 entries, 2 locks, 1 request, 3 mounts, without `mknod`, both protections | volumes that go offline with locks on them, are freed by the last lock, are followed by new mounts; shutdown with two offline volumes; every writing handler against every change of protection |

*Why the bounds are enough.*  Two locks are needed to break exclusion, and the
properties relate pairs; a third lock would only repeat a pair.  Three entries
hold a directory, an object below it and a third object with a request.  Two levels of
names are the least at which a rename moves something below the renamed object.
Three mounts give a current and two offline volumes at once.  A request and a lock
together cover the two lists of an entry.  The runs use symmetry over entries,
locks, requests, volumes and the inodes other than the root's: none of them is
compared with anything but equality.  Every disk starts with its root only;
clients create the rest.  The flags `UseIno`, `HasMknod` and `CaseSensitive`
differ between the two runs.

Deadlock is not checked: the pool of mounts is finite, and a handler that was
shut down has nothing left to do.

## 4. FbxVolume and FbxMount

One handler, its drive and the clients that send it packets.  The event loop is a
process with a program counter; a packet is served in one step.

| TLA+ | C |
|---|---|
| `pc` | the statements of `FbxEventLoop`: the test of `dosetup`, `dosetup = FALSE`, `FbxSetupVolume` in two steps, `Wait`, `FbxHandlePackets`, the test of `shutdown` |
| `currvol` | `fs->currvol`: a volume, `NULL`, or one of the sentinels -1 (`BAD_DISK`) and -2 (`NO_SETUP`); a volume is named by its disk |
| `dosetup`, `inhibit`, `shutdown`, `fssmcount` | the fields of `struct FbxFS` |
| `signals` | the task's received signals, the packet port's and `diskchangesig` |
| `queue`, `packet` | the messages in `fs->fsport`; each client waits for its reply |
| `alarm`, `signalling` | a change of disk that nobody has reported yet; a task between the two statements of `FbxSignalDiskChange` |
| `media`, `formatted`, `mount` | external: the disk in the drive, the disks the backend accepts, and the disk of the last `init` without a `destroy` |
| `seen` | what the last `init` found; no code reads it, two properties do |

The loop takes a step of its own for each access to `dosetup`, since an interrupt
(`FbxDiskChangeHandler`) or a task of the backend (`FbxSignalDiskChange`) sets it
without a lock.  The interrupt is one step: no task runs before it ends.  The
task's call is two steps.  `FbxSetupVolume` is cut after `init`, so that the disk
can change before `statfs` and `getattr` look at it; whatever fails after the cut
calls `destroy` and leaves `currvol` at `NULL`.

Left out: packets that only use the volume (they change nothing here), the modify
times and flushes (FbxTimer), `FbxAsyncAddVolume` beyond its success or failure
(FbxDosList), and the lists that `FbxDie` hands over (FbxLocks).  Packets queued
behind a shutdown count as answered: the lock handler gets them.  A handler
without a startup message refuses `ACTION_GET_DISK_FSSM`; the handlers modelled
have one, as the change interrupt needs it.

`FbxMount` is the abstract specification, on `media`, `formatted`, `inhibit` and
`mount` alone: `init` only with an uninhibited handler and nothing mounted, one
`destroy` for each `init`, `format` only while the handler is inhibited and nothing is
mounted, disks come and go at any time.  `BackendPromise == Backend!Spec` is the
refinement; the variables have the same names, so the mapping is the identity.

### Properties

| Property | Says |
|---|---|
| `TypeOK` | types; the two counters never go below zero |
| `NoLostChange` | when the loop sleeps and nothing is left to wake it, its last setup saw what is in the drive now |
| `BackendPromise` | the refinement of FbxMount |
| `Settles` | when disks, inhibits and packets come to rest, the handler shows the disk, the bad-disk sentinel or nothing, as it should, unless the last setup could fail |
| `Answered` | every packet is answered, or the handler is shut down |

`VolumeIsMounted` (the backend is mounted exactly when there is a volume, except
inside a setup) and `DeadIsUnmounted` (after `FbxDie` nothing is mounted) are
proved and have no run of their own.

*Fairness.*  `WF_vars(FbxEventLoop)`: the handler is a process that the system
schedules.  `WF_vars(FbxDiskChangeHandler \/ FbxSignalDiskChange)`: a change
interrupt is delivered, and a task that has begun to report goes on.  Nothing is
assumed of clients, disks, timers or user signals.  `Settles` is conditional, and
has to be: `FbxHandlePackets` drains the port before the loop looks at `dosetup`
again, so a client that never pauses holds up a disk change for ever, and the code
sets no bound.  It asks nothing of a disk in `CanFail`, because a setup
that fails is not tried again before the next change.

### Run

| Run | Instance | Shows |
|---|---|---|
| `volume` | 2 disks, one of which can fail in every place of a setup or format, 1 client, inhibits nested 2 deep, 1 user of the startup message | the safety invariants under every interleaving of loop, interrupt, tasks and client; the refinement; liveness |

*Why the bounds are enough.*  The loop compares disks with nothing; two show that
one disk is not taken for another, and that one that fails does not spoil the next.
One client sends any sequence of packets; the proofs of section 15 have the
safety properties for any number of clients.  Two nested inhibits show that only the last end counts.
`MaxInhibit` and `MaxFSSM` bound what clients send (`SendPacket`), not what the
handlers do.  Deadlock is checked: disks can always change.

## 5. FbxDosList

Several handlers, the DOS list that they share with all other programs, and the
helper process `dlproc`.  A handler must not wait for the list: whoever has it
locked may be waiting for that handler.  `FbxAsyncDosListCmd` therefore looks at the
helper's port (`AsyncCmd`), tries the list for some time (`Direct`), and leaves the
command to the helper (`Queue`).

| TLA+ | C |
|---|---|
| `doslist`, `doslock`, `volname` | external: the volume nodes in the list, who has it locked, `vol->volname` |
| `mem` | which `struct FbxVolume` are allocated |
| `refcount`, `dlpc`, `dlsig`, `port` | `dlproc_refcount`, the place in `FbxDosListProc`, its signal, its messages |
| `pc`, `cmd`, `empty` | the place of a handler in `FbxAsyncDosListCmd`, its command, and what it saw of the port |
| `currvol`, `volumelist`, `shutdown` | the fields of `struct FbxFS` |
| `refused` | history: volumes that `AddDosEntry` refused last, because of a second one with that name and date |

| Property | Says |
|---|---|
| `ListFollows` | when no command is on its way, the volume a handler shows is in the list (or was refused), and no other is: commands act in the order given, by whichever process |
| `CommandsEnd` | a handler never waits for the list, even if the program that has it locked waits for the handler |
| `CommandsServed` | the helper sees to what is left to it, and ends when all handlers stay away |

*Fairness* (`PoliteSpec`).  The helper is scheduled; a handler in the middle of a
command gets the processor again and again (`SF`, since the helper's priority, 15,
is above a handler's: `HelperFirst`).  `OtherAnswered` says of other programs only
what the deadlock would break: one that has the list unlocks it once the handlers
it might wait for are not in a command.  The last assumption, `SF` of the helper's
`LockDosList`, is that other programs do not take the list again each time just before it.

Run `doslist`: two handlers, two volumes of one name, one of which lacks memory for
its commands, two commands under way (`MaxPort`).  Two handlers are the least that
share a helper; one starts it while the other is the last to leave.  With one
name every second volume is refused, so that the failure paths are taken.

*What the priority carries.*  `FbxDosListProc` frees the messages that arrive after
its last look at the port without carrying them out (`doslist.c:105`), and it reads the
count without the semaphore first (`doslist.c:98`).  With `HelperFirst = FALSE`,
`ListFollows` fails: the last handler queues a removal and leaves, the helper ends,
and the volume stays in the list.  The code that sets the priority is what excludes it, and with
`HelperFirst` the property is proved (section 15).

## 6. FbxLibrary and FbxHelper

The life of the library and of its two helper processes (`"dl"`, `"lh"`) while
handlers are set up and cleaned up.  `pc` follows a handler through opening the
library, `FbxSetupFS` (join each helper under `procsema`, then look at the pointer
without it), running, `FbxCleanupFS`, and closing.  A helper reads its count without
and then with `procsema` before it ends.  The device node (`dntask`) is answered for
by one handler; `FbxDie` gives it up before the handler has ended, so that the next one
can be started meanwhile.

`FbxHelper` is the abstract specification: a set of users and a flag; the helper ends
only when nobody uses it.  Both helpers implement it: `users` is mapped to
`Users(p)`, the handlers that have been counted in and not out, and `alive` to
`proc[p] # "none"`.

| Property | Says |
|---|---|
| `CodeIsLoaded` | the library is never unloaded under a handler or a helper, though nobody opens it for the helpers |
| `UsersAlive` | a handler that has got a helper's port finds the helper alive |
| `DosListPromise`, `LockHandlerPromise` | the refinements of FbxHelper |

Run `library`: three handlers, so that one can join while a second leaves and a third
runs; setups that fail before they need a helper.  Safety only: a system that has
no use for the library may leave it alone.  `DeviceAnswered` and `CountIsUsers` are
proved (section 15).

## 7. FbxLockHandler and FbxObjects

A handler that is told to end, the programs that still hold locks and requests of it,
and the lock handler process that answers for them then.  An object names the port
of its process (`home`: `fl_Task`, `fh_Type`, `nr_Handler`); its owner reads that port
and sends packets there.  `FbxDie` takes each object out of the handler's lists, changes the
port (`FbxCollect`), sends it with `ACTION_COLLECT` (`SendCollect`) and waits for the lock
handler; then it redirects the packets at its own port (`Redirect`).

Objects are on volumes, of which one at most is current.  The disk of that one may be removed before the
shutdown (`FbxCleanupVolume`), and `FbxDie` removes it in any case; both keep the volume for its locks *and* its requests,
so that a shutdown with requests alone hands these over too.  Only `FbxEndLock` frees an offline volume
with requests on it, when its last lock goes (`Lost`).  Two history variables name the exceptions of the properties:
`forgotten` has the requests lost in this way and the objects that the lock handler has no memory for
(`CanFail`); `late` has the objects with a packet to the handler whose owner had read the port before `FbxDie` changed it, and
sent the packet after the handler's last look at its port.

`FbxObjects` is what a program may rely on: freeing what it holds succeeds, once;
a use may end with "no disk"; and nothing else is answered.  Handler and lock handler together
implement it (`ServicePromise`) for the locks that memory does not lack for.

| Property | Says |
|---|---|
| `OwnerAnswers` | the port an object names belongs to the process that has it in a list |
| `NothingStranded` | no packet is left at a port that nobody reads, but late ones and those about forgotten objects |
| `ServicePromise` | the refinement of FbxObjects |
| `Answered` | every other packet is answered, before, during and after the shutdown |
| `HelperEnds` | all that is not forgotten or late is freed in the end; then the lock handler ends, unless a late packet has left an object with it |

*Assumption.*  `HandlerFirst`: programs run only while the handler waits (its priority, which the mount entry sets,
is above theirs).  Only `ServicePromise` needs it; section 16 says what happens without it.  Nothing keeps the handler from
running between a program's look at a port (`Ask`) and its packet (`SendPacket`).
*Fairness*: both processes are scheduled, and so is a program that is about to send; for `HelperEnds` also that `ACTION_DIE` is
sent and that programs free what they have.

Run `handover`: a lock and two requests.  One request shares the lock's volume, so that it is handed over behind the lock or lost with
it; the other has a volume for itself and is handed over without any lock, and memory can lack for it.  Either volume or none is
current.  The three objects take both branches of each list, and `FbxDie` waits in the middle of each.  Several locks are left to the
proofs (section 15), which are for any number of objects.  Deadlock is not checked: both processes end.

## 8. FbxNotify

The messages of notify requests.  `FbxDoNotifyRequest` sends a message or a signal, or,
for `NRF_WAIT_REPLY` with a message under way, sets `NRF_MAGIC`; a reply either sends
the message again or frees it and lowers `nr_MsgCount`.  The event loop takes all packets,
then all replies, one per step.  Which entries a change concerns is in FbxLocks; here a
packet changes the object of one request.  `EndNotify` (a function of the operating system)
is external: it sends the packet and replies the messages that are at the port afterwards.
`FbxDie` hands the requests to the lock handler; the turn of the loop goes on, and replies that are there are handled
before the handler is gone (phase `dying`).
`news` is a history variable: a change that the program has not been told of.

| Property | Says |
|---|---|
| `CountIsUnderWay` | `nr_MsgCount`, for requests that do not end, is the number of messages that have not come back |
| `OneAtATime` | `NRF_WAIT_REPLY`, for requests that do not end: no message before the one before has been replied |
| `OffIsSilent` | nothing comes after `EndNotify` (but see section 16 for `NRF_WAIT_REPLY` requests that end) |
| `Told` | a change while the program works on an earlier message is told later |

*Fairness*: the handler is scheduled, and programs take and reply messages.  `Told`
also assumes that the loop finds its port empty now and then: it takes all packets before it looks at a
reply, and sets no bound.

Run `notify`: a request with `NRF_WAIT_REPLY` and `NRF_NOTIFY_INITIAL`, one with signals, and
one without either that ends, starts again and can lack memory; two packets and two messages
of a request at once (`MaxPackets`, `MaxMessages`); a shutdown.  `CountMod` stands for 2^32:
the count does not reach it.

## 9. FbxRename

`FbxUpdatePaths` walks the buckets of the hash table and moves the entries that it
renames to other buckets, or to the end of the one it is in.  FbxLocks has the effect
of the walk as one step; this module has its steps, and section 15 proves that both do the same.  A path is under the old name, under
the new one, or elsewhere; the hash of an entry is any function of these.  `Rehash` is `Remove` (`Without`)
and `FbxAddEntry`, which adds at the end of a bucket.

`AllRenamed`: when the walk is over, every entry below the directory has its new path
and is in the bucket in which it will be looked up.  `Ends`: the walk ends.  Run `walk`: every hash
function, order and choice of three entries in two buckets, which lets an entry be moved
before, behind and to where the walk is, with another one behind it.  `AllRenamed` is proved for any
number of entries and buckets, also for the renames whose walk need not end.  Run `recase` is a finding
(section 16).  Deadlock is not checked: the walk ends.

## 10. FbxTimer

| TLA+ | C |
|---|---|
| `now`, `left`, `io`, `late` | the clock modulo `Wrap`, the timer request and how long it has not been at the device |
| `list`, `lastcall`, `chain`, `succ` | `fs->timercallbacklist`, `cb->lastcall`, the walk over the list |
| `volume`, `firstmodify`, `lastmodify` | `OKVOLUME(fs->currvol)` and the modify times, 0 for "no change" |
| `asked`, `usigs`, `pending`, `rsigs` | the signals that the backend asks for, those that the loop waits for, those received, those that `Wait` returned |

The loop is cut at every place where another process can get between: `fssema` is held
during the walk (`Free`), and the callback functions run in it.  `Install` and the
stamp it takes are one step.  `MaxLate` is the one assumption about time: from the answer
of the timer to the next request at most `MaxLate` units pass.

| Property | Says |
|---|---|
| `CalledInTime` | a callback is called again before its period, one request and two turns of the loop have passed, across a wrap of the clock |
| `WalkOnListed` | the walk never reads a callback that was uninstalled |
| `FlushedInTime` | changed data is flushed in time after the first change, however many changes follow |
| `SignalsServed` | a signal that the backend goes on to ask for is served, although it is asked for while the loop waits for others |

*Fairness*: time passes, and the loop goes on when a signal wakes it.  Run `timer`: two callbacks with
periods 1 and 2, which uninstall themselves; one signal; a clock of 7, which wraps many times in
a behaviour and is above every sum that is compared.

## 11. FbxHandles: FbxFileIO and FbxExamine

`FbxFileIO` has one file and its handles: positions, access and size, with short reads and writes,
seeks, `FbxSetFileSize` and `MODE_NEWFILE`.  `PositionsKept` is an action property: a handle gets
behind the end of the file only by a call of its own.  `FbxExamine` has one lock on a
directory that other programs change, and both ways to read it: `Examine`/`ExNext`, with `dirscan`
and `dirdatalist` in the lock, and `ExAll`, with `eac_LastKey` in the program and the same
list in the lock.  `ScanTells`: a scan that is over has told every object
that was there all the time and matched, once, whatever was created and deleted and whatever scans
were left unfinished before.  `scan` is a history variable, which counts how often each name was told; a scan that another one or an error has
disturbed is not followed.

`FbxHandles` has either in one behaviour: two objects have nothing in common.  Run `handles`: three
handles (one truncates, one is in the way, one is open besides), a file of five units (`MaxSize`), offsets
from -3 to 3; four names of which three match, buffers for none, one or two.  Deadlock is checked.

## 12. FbxCharset: FbxAvl and FbxText

Names go to the backend as UTF-8 and to programs in the local character set.  `FbxAvl` is
`avl.c` and the search of `utf8_to_local`, with the two mirrored halves of the C code as one, by a sign.
Its steps are the turns of the loops: `InsertNext` is the loop of `FbxSetupAVL` up to that of `insert`;
`KeyKnown`, `GoDown` and `Attach` are the branches of `insert`; `TopReached`, `Absorb`, `Climb`, `RotateOnce` and
`RotateTwice` those of `retrace`.  A node is its local character; `root`, `link`, `parent` and `balance` are the fields,
`phase` and `at` the place in the code.
`FbxText` is `utf8.c`: decoding with and without checks, encoding, the escapes for characters
that the local set lacks, and the bounded copies.  The tables of `codesets.c` are constants of
the module.  A behaviour of FbxCharset sets the tree up (`FbxSetupAVL`) and then does one conversion, which leaves
the variables of FbxAvl alone.

| Property | Says |
|---|---|
| `Balanced` | after every insertion the tree is an AVL tree (order, balance fields, links), and the search finds each character |
| `RoundTrip` | a name that a program has been told and gives back is the name the backend gave, whatever the local set lacks |
| `CutIsTold` | the returned length is below the size exactly when the whole name is in the buffer; nothing is written behind the buffer; what the backend gets is valid UTF-8 |

`IsAvlTree` (with `Below` and `Height`), `Whole` and the comparison of `RoundTrip` are the reference definitions.  `NotLikeEscape`
restricts `RoundTrip` (section 16).

Run `charset`: the tree for six characters in any order, so that every rotation occurs on both
sides, and with two characters that are the same or missing; conversions with Latin-1 and with one table that lacks
characters (`Convertible`); names of one or two pieces, the pieces being the first and last code of each length,
the invalid ones next to them, and escapes whole, cut and malformed; buffers of 0 to 9 bytes, below and
above the longest piece.  `Balanced` is proved for any table (section 15).  Deadlock is not checked: a behaviour ends with its conversion.

## 13. Fairness

FbxLocks, FbxLibrary, FbxHandles and FbxCharset state none: nothing has to happen in them.  Elsewhere
it is weak fairness of processes that the operating system schedules, and of devices that answer; what
is assumed of programs is named (`PoliteSpec`, `OtherAnswered`, `Told`).

## 14. Composition

FbxVolume implements FbxMount, the two helpers of FbxLibrary implement FbxHelper, and FbxLockHandler
implements FbxObjects.  FbxLocks composes the four parts that share the object table; there is no
interface between them in the code that could be cut without losing the hazards, since each handler
edits entries, locks and requests directly.  The other modules meet at named places:

- a volume of FbxVolume is named by its disk; its `mount` is the current volume of FbxLocks; the
  commands of FbxDosList are the calls of `FbxAsyncAddVolume` and its like in both;
- `FbxDie` of FbxLocks says *which* objects are found and handed over; FbxLockHandler says what happens
  to each, and FbxLibrary that the lock handler is there;
- the flush in FbxCleanupVolume and the modify flag that each writing packet sets are FbxTimer's;
- FbxRename is the walk inside `FbxRenameObject` of FbxLocks (`RenameIsTheWalk`, section 15);
- a request of FbxNotify is a node of FbxLocks that is resolved.

## 15. Proofs

### FbxLocksProofs

`FbxLocksProofs` proves, for every set of paths closed under parents, every set of
disks, inodes, entries, locks, requests and mounts, and every setting of the flags:

| Theorem | |
|---|---|
| `Invariance` | `Spec => []IInv` |
| `TypeCorrect`, `ExclusiveAloneHolds`, `XlockSoleHolds`, `NoDanglingHolds`, `OpenOnCurrentHolds`, `ShutdownEndsLocksHolds` | the invariants of runs `names` and `mounts`, and `XlockSole` |
| `ProtectedUnchangedHolds` | the action property of run `mounts` |
| `NamesInvariance` | `Spec => []NamesInv` |
| `OneEntryPerPathHolds`, `EntryKeepsObjectHolds` | the two other invariants of run `names` |
| `AllRenamedHolds` | the invariant of run `walk`: FbxRename, for every finite set of entries, number of buckets, hash function and order |
| `WalkRenames` | the places of all entries when the walk is over |
| `RenameIsTheWalk` | `FbxRenameObject` of FbxLocks changes the paths as that walk does |

*Assumptions*: `PathAssumption` (paths are sequences, with everything above each),
`DiskAssumption` (disks are closed trees), `FlagAssumption`, and `NullAssumption` (NULL is no address).

*Argument.*  `IInv == TypeOK /\ Shape /\ XlockSole /\ NoDangling /\ OpenOnCurrent`.
None of the invariants is inductive alone:

- `ExclusiveAlone` needs `XlockSole`: `FbxLockEntry` looks at the mark and not at the
  other locks' access when a shared lock is asked for, so the mark must cover every
  exclusive lock.  The converse (a marked entry has a lock) is false (section 16);
  the invariant says "at most one" and survives it.
- `TypeOK` needs `NoDangling`: `FbxEndLock` frees the volume of a lock, and only
  `NoDangling` says that it is one.
- `NoDangling` needs `Shape`: a structure taken from the free ones carries nothing over.
- `OpenOnCurrent` needs `NoDangling`, and `ShutdownEndsLocks` needs both with `Shape`:
  a lock that `FbxDie` misses would be on a volume that is neither current nor offline.

`NextSafe` has one step per action; the lemmas `GrantSafe`, `CleanupSafe`,
`LockEntrySafe`, `ReleaseSafe` are about the helpers that several actions share.
`ProtectedUnchanged` needs no invariant; each handler's guard is enough, and the
proof goes through every action to show it.

`NamesInv == ClosedTree(tree) /\ VolumesKnown /\ OneEntryPerPath /\ EntryKeepsObject`
is inductive beside `IInv`:

- A rename makes no second entry for a name only if there is no entry at the new name *or below it*.
  `FbxRenameObject` looks at the new name alone; that nothing is below a free name is `ClosedTree`, and
  that no entry is there then is `EntryKeepsObject`.
- `FbxUpdatePaths` has to give an entry the path to which the backend has moved its object: `Rebase` of paths and
  the move of the tree are inverse to each other (`NewName`, from `RebaseMoves` and `RebaseKeepsOrder`,
  which are about sequences), and an entry that is not below the old name is not below the new one either.
- A mount must not get the address of a volume that entries are left of: `VolumesKnown`.

*The walk.*  The module extends FbxRename, too, whose `Walked` are the entries of the volume.  Its invariant, `WalkIInv`, has two parts.  `TableInv`: each
bucket has the entries that belong to it, each once.  `WalkInv`: an entry that is still under the old name is in a bucket that
the walk has not reached, or in the one it is in at the node that is next or behind it (`NotPassed`).  A moved entry is
appended, so that what was behind the walk stays behind it (`WithoutNode`, `AppendNode`), and the next node is read before
(`VisitNodes`).  The walk of FbxRename may begin only when no entry is under the new name.  `RenameIsTheWalk` proves
this of every state in which FbxLocks renames, from `ClosedTree` and `EntryKeepsObject`, and that the paths after that
one step are at the places that `WalkRenames` gives.  It leaves out a change of case only (`p = q` in FbxLocks), where the
paths stay the same and run `recase` shows that the walk need not end.

### FbxVolumeProofs

For every set of disks and clients, with and without failures:

| Theorem | |
|---|---|
| `Invariance` | `Spec => []IInv` |
| `TypeCorrect`, `NoLostChangeHolds`, `VolumeIsMountedHolds`, `DeadIsUnmountedHolds` | the invariants of run `volume`, and two that have no run |
| `Refinement` | `Spec => BackendPromise`, initial states and every step |

*Assumption*: `ConstantAssumption` (NULL and the sentinels are not disks).

*Argument.*  `IInv == TypeOK /\ SetupInv /\ InhibitInv /\ ShutdownInv /\ LookInv`.

- `LookInv` is what makes `NoLostChange` inductive: either the last setup saw what
  is in the drive, or the handler is inhibited or shut down, or the loop *will look*:
  a report is due, a setup is about to call `init`, or `dosetup` is set and the
  loop is awake or has a signal.  Clearing `dosetup` before `init` keeps it;
  clearing it afterwards (the mutant `StartThenClear`) does not.
- `SetupInv` says where in a turn there may be a mount without a volume, and that
  a setup that has called `init` runs uninhibited; `InhibitInv` that an inhibited
  handler has nothing mounted.  The guards of FbxMount's `Mount` and `Format` follow
  from them, not from any test in the code at those points.
- `ShutdownInv` keeps the loop away from the setup after `FbxDie`.

`PacketEffect` says once what any packet may do; the step lemmas use it.

### FbxLibraryProofs

For every finite set of handlers; all but the first two need that the start of a
helper does not fail.  The last two are about FbxAvl, for every set of tables, since `FbxSetupFS` makes the tree:

| Theorem | |
|---|---|
| `TypeCorrect`, `CodeIsLoadedHolds`, `UsersAliveHolds` | the invariants of run `library`, and the types |
| `CountIsUsersHolds` | the count of a helper is the number of its users |
| `DosListRefines`, `LockHandlerRefines` | the refinements of FbxHelper |
| `DeviceAnsweredHolds` | a running handler is the one that its device is answered by, if setups do not fail |
| `AvlInvariance` | `AvlSpec => []AvlInv` |
| `BalancedHolds` | an invariant of run `charset`: the tree is an AVL tree, and the search finds what was inserted |

*Argument.*  That the counts are cardinalities is the heart: a helper that reads 0 under
`procsema` has no users, and a handler that joins under `procsema` is one before it looks
at the pointer.  `CodeIsLoaded` needs the same for `openCnt`.  `Shared` proves the
invariant for both helpers at once.  `DeviceAnswered` needs that a handler that has
begun to give the device up has not got it any more.

*The tree.*  `AvlInv` says that there are a height `h` of each node and a set `B` of what is below it with three properties.
`Shape`: links and parents are inverse to each other, `B` follows the links, and what is below a
child is on its side of the node.  `Heights`: height and balance of a node follow from its children, but for the
subtree of `at`, which has grown by one and has not been noted (`Noted`); this is what makes `retrace` inductive.
`OnTheWay`: the new character is on the side of `at` of every node above `at`.
For a rotation the new `h` and `B` are written down (`Lifted`, `LiftedParents`, `LiftedBelow`);
a double rotation is `RotationKeepsShape` twice.  The comment in `avl.c:66` that the child is never in balance when it is rotated once is a
step of `RotateOnceKeeps`: a node in balance from which `retrace` comes is the new leaf (last part of `TreeInv`), and its
parent would have a subtree of negative height.  When the set-up is between two characters, `h` and `B`
satisfy the equations of the recursive functions `Height` and `Below`, and a least node where they differ has children where they
do not (`SameBelow`, from `LeastNumber`); in the same way the search is compared with the choice of a bearer of the character
(`SearchFinds`).  That the tables have numbers as characters, other than 0 on the local side, is all that is assumed (`TableAssumption`).

### FbxHandlesProofs

For every set of handles, offsets and sizes, and for every finite set of names, pattern and buffer:

| Theorem | |
|---|---|
| `PositionsKeptHolds`, `HandlesAreFiles` | the action property of run `handles`, for files alone, and that the files of FbxHandles are such files |
| `DirectoryInvariance` | `HandlesSpec => []IInv` of FbxExamine |
| `ScanTellsHolds` | the invariant of run `handles` |

*Files.*  Only `OpenNew` and `FbxSetFileSize64` make the file shorter; the first finds no other handle,
because its lock is exclusive, the second looks at all other positions.

*Directories.*  `Pending(s, list)` says that what scan `s` has told and what `list` has left are disjoint, that neither has a
name twice, and that together they have all that must be told.  `ExNext` takes the head of the
list (`TailPending`), `ExAll` its first entries, of which it tells those that match (`FillPending`).
`ScanInv` says in which states `Pending` has to hold: for `ExNext` while `dirscan` is set, for `ExAll` while `eac_LastKey` is not NULL;
before that the list is read from the backend (`FreshPending`), and for `ExNext` it is empty until then.

### FbxNotifyProofs

For every set of requests with any flags, and all bounds:

| Theorem | |
|---|---|
| `Invariance` | `Spec => []IInv` |
| `TypeCorrect` | types, and the bound on the messages of a request |
| `CountIsUnderWayHolds`, `OneAtATimeHolds`, `OffIsSilentHolds` | the invariants of run `notify` |

*Assumption*: `ConstantAssumption`; the count does not reach `CountMod` because `MaxMessages` bounds what is under way.

*Argument.*  All requests share one reply port, so that "how many replies of `r` are in it" is a count over a mixed
queue; the lemmas at the start say what `Append` and `Tail` do to it.  `PacketsInv` says which packets of a
request can be at the handler's port in which state of its program: one that starts or ends it, once and only while the program waits for it,
and changes, each of which has room for one more message (the bound that makes `MaxMessages` hold at its place in the queue).
`RequestInv` relates `nr_MsgCount`, the messages at the program and the replies: with `NRF_WAIT_REPLY` at most
one is under way, and a request that does not end has its count right and nothing under way before it is started.  It is stated for
the requests outside `MayEnd` where section 16 has a counterexample inside, and for all otherwise.

### FbxLockHandlerProofs

For every set of locks and requests:

| Theorem | |
|---|---|
| `Invariance`, `TypeCorrect` | `Spec => []IInv`, and types |
| `OwnerAnswersHolds` | the invariant of run `handover`, with no hypothesis on the scheduling |
| `NothingStrandedHolds` | the other one, likewise |
| `Refinement` | `Spec => ServicePromise`, if `HandlerFirst` |

*Assumption*: `ConstantAssumption` (locks are no requests, NULL is nothing else, each object is on a volume).  `HandlerFirst` is a hypothesis
of the refinement; section 16 says what happens without.

*Argument.*  `PlaceInv` says for each object where it is: in the handler's table, being handed over (`item`), in the lock
handler's list, forgotten, or freed.  What is forgotten was lost in one of the two ways there are: it names the lock handler's port and memory can
lack for it, or it is a request whose volume is offline.  `PhaseInv` says how far the two processes are, and `CollectInv` that the one `ACTION_COLLECT` is at the port
while the handler waits for its answer.  `PacketInv`: a packet about an object is about to be sent or at one port, once, and an object is not freed
before it is answered; what is at the handler's port after its last look is late or about a forgotten object.  `ScheduleInv` is what `HandlerFirst` adds:
no packet comes between the redirection and the end of the loop, and the `ACTION_COLLECT` is before any packet about the object, so that the lock handler finds it in its
list.  In the refinement, a step that
answers is a step of FbxObjects, and all steps of the hand-over are stutters.

### FbxTimerProofs

For every set of callbacks with any periods, any timeouts, any clock:

| Theorem | |
|---|---|
| `LoopInvariance` | `Spec => []LoopInv` |
| `FlushedInTimeHolds` | whatever the callbacks do |
| `Invariance` | `Spec => []IInv`, if callbacks uninstall none but themselves (`OnlyThemselves`) |
| `CalledInTimeHolds`, `WalkOnListedHolds` | the other two invariants of run `timer`, under the same hypothesis |

*Argument.*  `RequestInv` says where the timer request is at each place of the loop, and `Turn` what has passed since the last turn of the
timer, which is a request and `MaxLate` at most.  Each property is about a distance on the clock, `Gap`, modulo `Wrap`: it stays below
the period or timeout plus `Turn`, since each turn makes a check that resets it or finds that the time has not come, and
then starts a new request.  While the walk is under way, this holds already of the callbacks that it has passed (`Done`).
`WalkInv`: the list has no callback twice, and `succ` is the one
after `chain` in it.  A callback that uninstalls the next one breaks exactly this (section 16).

### FbxDosListProofs

For every finite set of handlers, any volumes and names, and with memory lacking for any commands:

| Theorem | |
|---|---|
| `Invariance` | `Spec => []IInv`, if `HelperFirst` |
| `ListFollowsHolds` | the invariant of run `doslist`, if `HelperFirst` |

*Argument.*  A handler carries a command out itself only if it saw the helper's port empty, and no other handler gives
commands for its volumes (`HoldInv`: a volume is in use by one handler); so the commands for a volume are carried out in the order they were given.
`InAfter` and `OutAfter` say that a volume will be in the list, or out of it, when the helper has carried out all that is at its port;
`FollowInv` that this is what the handlers show, at every moment.  `FreeInv` says that a volume that the helper is going to free
is in use by no handler and freed once, and `HelperInv` that the helper knows of what is left to it and does not end before it is done, which is
where `HelperFirst` is needed.  `IInv` was checked by TLC on the instance of the run before it was proved, and also with three
commands at the port.

### Only model-checked

Liveness, `ENABLED` and induction over data are out of the prover's reach: `Settles`, `Answered`,
`CommandsEnd`, `CommandsServed`, `HelperEnds`, `Told`, `Ends`, `SignalsServed` stay with TLC.  FbxText follows the bytes of a name
with recursive operators, so that `RoundTrip` and `CutIsTold` are checked over bounded names and buffers only.  Every other safety
property of the runs is proved, by an invariant or, where a proof is about a recursive function (`Balanced`), by the least number of a set.

## 16. Disagreements met while modelling

One is a run that expects a violation; a project of this size has no room for a run of each.
The others were found the same way, in instances that are described here.  The models have the
behaviour of the code; where a property would fail, its bound or assumption says so.

**The finding.**

- **`Ends` of run `recase`** (`fsrename.c:51`).  On a volume that is not case sensitive, a rename
  of a directory may change only the case of its name (`fsrename.c:144`).  The entries below it still match the
  old name after they got the new one, and `FbxAddEntry` puts them at the end of the bucket that is being walked.
  With two of them in one bucket the walk never ends.

**Locks and volumes** (FbxLocks).

- `filesysbox_internal.h:306` says "xlock; // true if exclusively locked", but `FbxEndLock`
  (`filesysbox.c:244`) never clears it.  The entry normally dies with its last lock, but a notify request keeps it:
  the object then counts as exclusively locked with no lock on it, and every lock is refused.
- `filesysbox.c:192` says "exclusive locks are not allowed on directories"; `FbxChangeMode` makes them.
  It also stores the access before it refuses an unknown mode (`fschangemode.c:33`).
- `docs/internal-invariants.md:29` says "Shutdown should not leave stale locks/notify nodes behind."  `FbxEndLock`
  frees an offline volume when its last *lock* goes (`filesysbox.c:259`), although a request may be
  on it; `FbxCleanupVolume` looks at both lists.  `FbxDie` then cannot find the request.
  `FbxRemoveNotify`, for its part, never frees such a volume.
- `fsaddnotify.c:53` asks whether the object is missing by `fs->r2`, the result of an *earlier* packet,
  instead of `error`.  `fs->r2` has codes of AmigaDOS and never `-ENOENT`, so every request for a missing object is refused.

**The DOS list** (FbxDosList).

- While the removal of an offline volume waits at the helper, `FbxEndLock` may free that volume (`filesysbox.c:263`);
  the helper then removes freed memory from the list.
- `FBX_ASYNC_REMOVE_FREE` frees the volume only if `RemDosEntry` succeeds (`doslist.c:76`), so that one whose
  `AddDosEntry` was refused stays allocated; `volume.c:220` says "Remove and free if no locks are pending".
- The result of a queued `AddDosEntry` reaches nobody: the handler shows a volume that is not in the list (`refused`).

**Setup and helpers** (FbxLibrary).

- Whether there is a helper is asked after the semaphore was released (`FbxSetupFS.c:321`).  A handler whose own start of the
  helper failed, and which is not counted, goes on if another handler has started it by then, and leaves it uncounted:
  with `"start"` in `CanFail`, `UsersAlive` fails.  `docs/public-api/10-lifecycle.md:165` says "partial setup does not escape as a usable
  instance".
- A setup that fails answers the startup packet (`FbxSetupFS.c:350`) before `FbxCleanupFS` clears `dn_Task`.  DOS
  may start the next handler in between, which then loses the device: with `"setup"` in `CanFail`, `DeviceAnswered` fails.
  `10-lifecycle.md:162` says that filesysbox "cleans up partially initialized internal state before returning failure".

**Shutdown** (FbxLockHandler).

- `FbxCollectLock` sets the port before the lock handler has the object (`lockhandler.c:381`).  With
  `HandlerFirst = FALSE`, a program that frees its lock in between is refused.
- A program reads the port of an object and then sends its packet.  If the whole shutdown is in between, the packet meets a
  port that `FbxDie` has emptied for the last time (`fsdie.c:74`), or a deleted one: it is never answered, its object is never freed, and the lock
  handler, which has the object, never ends.  These objects are in `late`.
- The lock handler may have no memory for an object (`lockhandler.c:101`), and `FbxDie` does not look at its answer:
  the object, in `forgotten`, can never be freed.  `OwnerAnswers` and `ServicePromise` leave these out.
- A request that `FbxEndLock` has lost with its volume (above) names the handler's port until the end: `FbxDie` does not hand it over, and
  packets about it that are redirected are refused.  It is in `forgotten` as well.

**Notification** (FbxNotify).

- `FbxRemoveNotify` sets `nr_MsgCount` to 0 and leaves `NRF_MAGIC` (`fsremovenotify.c:35`).  If the request is started again before the replies
  to its old messages are handled (the loop takes packets first), each such reply lowers the new count
  (`FbxEventLoop.c:228`), which can wrap, or sends an old message again.  `CountIsUnderWay` leaves out the requests in `MayEnd`.
- The handler deletes its reply port (`FbxCleanupFS.c:105`) while messages may be with programs, which reply to it later.

**Timer** (FbxTimer).

- A callback that uninstalls *the next one* leaves `succ` at freed memory (`FbxEventLoop.c:260`); with such a pair in
  `Uninstalls`, `WalkOnListed` fails.
- A change at clock 0 is stamped 1 (`filesysbox.c:437`).  The difference is then negative, and compared with an unsigned
  timeout, so that data may be flushed at once: harmless, and why `FlushedInTime` counts from one unit earlier.

**Files and directories** (FbxFileIO, FbxExamine).

- After a short write the position moves by what was asked for, not by what was written (`fswrite.c:52`): the
  position can be behind the end.
- `FbxSetFileSize` cuts the position before the backend is asked (`fssetfilesize.c:78`): a refused truncation, also one to
  a negative size, moves the position.
- `FbxSeekFile` fails for a position that has no room in its answer after it has moved.
- `MODE_NEWFILE` truncates the file and can then fail to open it (`fsopen.c:210`): nobody is notified of the change.
- `ExNext` after an `ExAll` that was not ended appends to what that has left.  An `ExAll` that has told everything keeps its
  state (`fsexamineall.c:262`) until it is called once more or the lock ends.  A buffer without room
  for one entry gives success with no entries.

**Character sets** (FbxText).

- When there is no room for the character of an escape, `local_to_utf8` breaks off (`utf8.c:579`) without having skipped the
  digits of the escape, which are then counted besides: the length that is returned is too large, and the bytes that are left
  before the terminating 0 are not written.  Only callers that ignore the length can see it (`volume.c:33`, `notify.c:94`).
- A name of the backend that looks like an escape (`%` and digits) comes back as another name, where `releasenotes:108` speaks
  of a conversion that is reversible; `RoundTrip` leaves it out.
- The tables of ISO-8859-3 and -7 have 0 for missing characters, and `local_to_utf8` writes it: the name ends there.

## 17. Not modelled

`PROJECT.json` lists every part with its status.

- *Soft links* and *metadata packets* (comment, date, owner, protection, extended attributes): one backend call each between
  guards that FbxLocks has already; they keep no state.  What `ACTION_INFO`, `Examine` and the query functions tell is data of the backend.
- *Upper case* (`ucs4.c`), *number formatting* (`dofmt.c`) and BSTR copies: pure functions without state, one table or loop each.  FbxLocks compares
  names, with or without case, as names.
- *Debugging output, wrappers of memory and stack, tables of entry points, stubs* and the *command line tools*: no state, or not part of the library.
- *Lack of memory while a directory is read*: `dir_fill_func` stops, and the list of `ExAll` and `ExNext` is short
  (`fsexaminenext.c:50`).  FbxExamine reads the whole list.
- *Data* of files, and memory that is freed and used within one step.
- The overflow of the startup message's counter at `LONG_MAX`, and of 64-bit file positions, are beyond the bounds of the runs.
