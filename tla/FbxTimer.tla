-------------------------------- MODULE FbxTimer --------------------------------
(***************************************************************************)
(* The clock, the timer request and what hangs on them: the callbacks that *)
(* the backend installs, the flush of changed data, and the signals of the *)
(* backend, which the event loop waits for.                                *)
(*                                                                         *)
(* The clock counts in milliseconds modulo 2^32; here it counts in units   *)
(* of its own modulo Wrap.  The timer device answers after Request units.  *)
(* From its answer to the next request at most MaxLate units pass: this is *)
(* all that is assumed of the time the handler needs for a turn of its     *)
(* loop.  FbxInstallTimerCallback and its like are called by other         *)
(* processes, too; each of them holds fssema while it changes the list.    *)
(***************************************************************************)
EXTENDS Naturals, Sequences, SequencesExt, FiniteSets

CONSTANTS
  Callback,       \* struct FbxTimerCallbackData
  Period,         \* the period of each callback
  Uninstalls,     \* <<c, d>>: the function of c may uninstall d
  Signal,         \* the signals that the backend may ask for
  Wrap,           \* 2^32
  Request,        \* FBX_TIMER_MICROS
  MaxLate,        \* the longest time without a request at the device
  Active,         \* aut
  Inactive,       \* iaut
  END             \* the end of the list of callbacks

ASSUME ConstantAssumption ==
  /\ Wrap \in Nat \ {0} /\ Request \in Nat \ {0} /\ MaxLate \in Nat
  /\ Active \in Nat /\ Inactive \in Nat
  /\ Period \in [Callback -> Nat \ {0}]
  /\ Uninstalls \subseteq Callback \X Callback /\ END \notin Callback

VARIABLES
  now,            \* FbxGetUpTimeMillis
  left,           \* what is left of the timer request
  io,             \* "idle", "sent" or "replied"
  late,           \* how long no request has been at the device
  pc,             \* where the handler is in its loop
  list,           \* fs->timercallbacklist
  lastcall,       \* cb->lastcall
  chain, succ,    \* the walk over the list
  volume,         \* OKVOLUME(fs->currvol)
  firstmodify, lastmodify,
  asked,          \* fs->signalcallbacksignals
  usigs,          \* what Wait waits for
  pending,        \* the signals of the backend that the process has received
  rsigs,          \* those that Wait has returned
  shutdown        \* fs->shutdown

time == <<left, io, late>>
walk == <<list, lastcall, chain, succ>>
modify == <<volume, firstmodify, lastmodify>>
usignals == <<asked, usigs, pending, rsigs>>
vars == <<now, time, pc, walk, modify, usignals, shutdown>>

\* Unsigned subtraction.
Since(t) == (now + Wrap - t) % Wrap

\* fssema is held by the handler during the walk.
Free == pc \notin {"walk", "call"}

-----------------------------------------------------------------------------
(* The clock and the timer device *)

Tick ==
  /\ io # "sent" => late < MaxLate
  /\ now' = (now + 1) % Wrap
  /\ IF io = "sent"
     THEN /\ left' = left - 1
          /\ io' = IF left = 1 THEN "replied" ELSE "sent"
          /\ UNCHANGED late
     ELSE late' = late + 1 /\ UNCHANGED <<left, io>>
  /\ UNCHANGED <<pc, walk, modify, usignals, shutdown>>

\* SendIO.
FbxStartTimer ==
  io' = "sent" /\ left' = Request /\ late' = 0

-----------------------------------------------------------------------------
(* Callbacks *)

\* Mutant of FbxInstallTimerCallback: lastcall is not set.
InstallUnset(c) ==
  /\ pc # "end" /\ Free /\ c \notin Range(list)
  /\ list' = Append(list, c)
  /\ UNCHANGED <<now, time, pc, lastcall, chain, succ, modify, usignals, shutdown>>

\* Remove: the list without the node of c.
Without(c) ==
  LET i == CHOOSE i \in DOMAIN list : list[i] = c
  IN  RemoveAt(list, i)

\* FbxInstallTimerCallback.
FbxInstallTimerCallback(c) ==
  /\ pc # "end" /\ Free /\ c \notin Range(list)
  /\ lastcall' = [lastcall EXCEPT ![c] = now]
  /\ list' = Append(list, c)
  /\ UNCHANGED <<now, time, pc, chain, succ, modify, usignals, shutdown>>

\* Mutant of FbxUninstallTimerCallback: the semaphore is not taken.
UninstallAnyTime(c) ==
  /\ pc # "end" /\ c \in Range(list)
  /\ list' = Without(c)
  /\ lastcall' = [lastcall EXCEPT ![c] = 0]
  /\ UNCHANGED <<now, time, pc, chain, succ, modify, usignals, shutdown>>

\* FbxUninstallTimerCallback by another process.
FbxUninstallTimerCallback(c) ==
  /\ pc # "end" /\ Free /\ c \in Range(list)
  /\ list' = Without(c)
  /\ lastcall' = [lastcall EXCEPT ![c] = 0]
  /\ UNCHANGED <<now, time, pc, chain, succ, modify, usignals, shutdown>>

Succ(c) ==
  LET after == {i \in 2..Len(list) : list[i - 1] = c}
  IN  IF after = {} THEN END ELSE list[CHOOSE i \in after : TRUE]

\* FbxHandleTimerEvent: the answer of the device; the walk starts.
HandleTimerEvent ==
  /\ pc = "timer?"
  /\ IF io = "replied"
     THEN /\ io' = "idle"
          /\ chain' = IF list = <<>> THEN END ELSE Head(list)
          /\ pc' = "walk"
     ELSE pc' = "user?" /\ UNCHANGED <<io, chain>>
  /\ UNCHANGED <<now, left, late, list, lastcall, succ, modify, usignals, shutdown>>

\* One callback of the walk.  The one after it is read first.
WalkCallbacks ==
  /\ pc = "walk"
  /\ IF chain = END
     THEN pc' = "flush?" /\ UNCHANGED <<lastcall, chain, succ>>
     ELSE IF Since(lastcall[chain]) > Period[chain]
     THEN /\ lastcall' = [lastcall EXCEPT ![chain] = now]
          /\ succ' = Succ(chain)
          /\ pc' = "call" /\ UNCHANGED chain
     ELSE chain' = Succ(chain) /\ UNCHANGED <<lastcall, succ, pc>>
  /\ UNCHANGED <<now, time, list, modify, usignals, shutdown>>

\* The function of the callback, which holds fssema and can obtain it again.
CallFunction ==
  /\ pc = "call"
  /\ \/ UNCHANGED <<list, lastcall>>
     \/ \E d \in Range(list) :
          /\ <<chain, d>> \in Uninstalls
          /\ list' = Without(d)
          /\ lastcall' = [lastcall EXCEPT ![d] = 0]
  /\ chain' = succ /\ succ' = END /\ pc' = "walk"
  /\ UNCHANGED <<now, time, modify, usignals, shutdown>>

-----------------------------------------------------------------------------
(* Flushing *)

\* FbxSetModifyState: zero stands for no change.
FbxSetModifyState(state) ==
  LET stamp == IF now = 0 THEN 1 ELSE now
  IN  /\ lastmodify' = IF state THEN stamp ELSE 0
      /\ firstmodify' = IF ~state THEN 0
                        ELSE IF firstmodify = 0 THEN stamp ELSE firstmodify

\* Mutant of FlushDue: only the time since the last change counts.
FlushIdle == Inactive # 0 /\ Since(lastmodify) > Inactive

FlushDue ==
  \/ Active # 0 /\ Since(firstmodify) > Active
  \/ Inactive # 0 /\ Since(lastmodify) > Inactive

\* The end of FbxHandleTimerEvent.
FlushAndRestart ==
  /\ pc = "flush?"
  /\ IF volume /\ firstmodify # 0 /\ FlushDue
     THEN FbxSetModifyState(FALSE)
     ELSE UNCHANGED <<firstmodify, lastmodify>>
  /\ FbxStartTimer
  /\ pc' = "user?"
  /\ UNCHANGED <<now, walk, volume, usignals, shutdown>>

\* A packet that changes the volume.
ModifyPacket ==
  /\ pc = "packets" /\ volume
  /\ FbxSetModifyState(TRUE)
  /\ UNCHANGED <<now, time, pc, walk, volume, usignals, shutdown>>

\* ACTION_FLUSH: FbxFlushAll.
FlushPacket ==
  /\ pc = "packets"
  /\ FbxSetModifyState(FALSE)
  /\ UNCHANGED <<now, time, pc, walk, volume, usignals, shutdown>>

\* FbxCleanupVolume, which flushes too, as a part of FbxDie ...
FbxDie ==
  /\ pc = "packets" /\ ~shutdown
  /\ volume' = FALSE /\ shutdown' = TRUE
  /\ FbxSetModifyState(FALSE)
  /\ UNCHANGED <<now, time, pc, walk, usignals>>

\* ... or before a setup.
SetupVolume ==
  /\ pc = "setup?"
  /\ volume' \in BOOLEAN
  /\ IF volume THEN FbxSetModifyState(FALSE)
     ELSE UNCHANGED <<firstmodify, lastmodify>>
  /\ UNCHANGED <<now, time, pc, walk, usignals, shutdown>>

-----------------------------------------------------------------------------
(* The signals of the backend *)

\* FbxSetSignalCallback by any process.
FbxSetSignalCallback ==
  /\ pc # "end" /\ Free
  /\ asked' \in SUBSET Signal
  /\ UNCHANGED <<now, time, pc, walk, modify, usigs, pending, rsigs, shutdown>>

SendSignal ==
  /\ pc # "end"
  /\ pending' \in {pending \cup {s} : s \in Signal}
  /\ UNCHANGED <<now, time, pc, walk, modify, asked, usigs, rsigs, shutdown>>

\* Mutant of ReadSignals: the signals are read once, before the loop.
ReadNone ==
  /\ pc = "setup?"
  /\ pc' = "wait"
  /\ UNCHANGED <<now, time, walk, modify, usignals, shutdown>>

\* usigs = fs->signalcallbacksignals.
ReadSignals ==
  /\ pc = "setup?"
  /\ usigs' = asked /\ pc' = "wait"
  /\ UNCHANGED <<now, time, walk, modify, asked, pending, rsigs, shutdown>>

\* Wait, for a signal of the backend, the timer, or any other signal.  usigs is
\* not used after it.
WaitSignals ==
  /\ pc = "wait"
  /\ rsigs' = pending \cap usigs /\ pending' = pending \ usigs
  /\ usigs' = {} /\ pc' = "packets"
  /\ UNCHANGED <<now, time, walk, modify, asked, shutdown>>

\* The queue of packets is empty.
NoMorePackets ==
  /\ pc = "packets"
  /\ pc' = "timer?"
  /\ UNCHANGED <<now, time, walk, modify, usignals, shutdown>>

\* FbxHandleUserEvent, and FbxStopTimer when the loop ends.
HandleUserEvent ==
  /\ pc = "user?"
  /\ rsigs' = {}
  /\ IF shutdown THEN io' = "idle" /\ pc' = "end" ELSE pc' = "setup?" /\ UNCHANGED io
  /\ UNCHANGED <<now, left, late, walk, modify, asked, usigs, pending, shutdown>>

-----------------------------------------------------------------------------
\* FbxSetupFS has started the clock; the loop has started the timer.
Init ==
  /\ now = 0 /\ io = "sent" /\ left = Request /\ late = 0
  /\ pc = "setup?" /\ list = <<>> /\ lastcall = [c \in Callback |-> 0]
  /\ chain = END /\ succ = END
  /\ volume = FALSE /\ firstmodify = 0 /\ lastmodify = 0
  /\ asked = {} /\ usigs = {} /\ pending = {} /\ rsigs = {} /\ shutdown = FALSE

\* What the loop does next, if no packet comes any more.
EventLoop ==
  \/ ReadSignals \/ NoMorePackets \/ HandleTimerEvent
  \/ WalkCallbacks \/ CallFunction \/ FlushAndRestart \/ HandleUserEvent

Woken == io = "replied" \/ pending \cap usigs # {}

Next ==
  \/ Tick \/ EventLoop \/ WaitSignals
  \/ ModifyPacket \/ FlushPacket \/ FbxDie \/ SetupVolume
  \/ FbxSetSignalCallback \/ SendSignal
  \/ \E c \in Callback : FbxInstallTimerCallback(c) \/ FbxUninstallTimerCallback(c)

\* Time passes, and the loop goes on when there is a signal for it.
Fairness ==
  /\ WF_vars(Tick) /\ WF_vars(EventLoop)
  /\ WF_vars(Woken /\ WaitSignals)

Spec == Init /\ [][Next]_vars /\ Fairness

-----------------------------------------------------------------------------
(* Properties *)

\* A callback is called again before its period, one request and two turns of
\* the loop have passed, whatever wrap of the clock falls in between: the turn
\* that just found it not due yet, and the one that calls it.
CalledInTime ==
  pc # "end" => \A c \in Range(list) :
                  Since(lastcall[c]) <= Period[c] + Request + 2 * MaxLate

\* The walk never reads a callback that was uninstalled and freed.
WalkOnListed ==
  /\ pc = "walk" => chain \in Range(list) \cup {END}
  /\ pc = "call" => {chain, succ} \subseteq Range(list) \cup {END}

\* Changed data is flushed at the latest when the active timeout, one request
\* and one turn of the loop have passed since the first change, however many
\* changes follow.  A change at time 0 counts as one at 1.
FlushedInTime ==
  firstmodify # 0 /\ Active # 0 =>
    Since(firstmodify - 1) <= Active + 1 + Request + MaxLate

\* A signal that the backend goes on to ask for is served, although it may
\* begin to ask while the loop waits for other signals.
SignalsServed ==
  \A s \in Signal : s \in pending ~> s \notin pending \/ s \notin asked \/ shutdown
=============================================================================
