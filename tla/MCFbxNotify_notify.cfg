\* A request with NRF_WAIT_REPLY, one with signals, and one that is ended and
\* for which memory can lack.  The handler can be shut down.
CONSTANTS
  Req = {m, w, s}
  SignalOnly = {s}
  WaitReply = {w}
  Initial = {w}
  Missing = {}
  CountMod = 8
  MaxPackets = 2
  MaxMessages = 2
  CanFail = {m}
  MayEnd = {m}
  MayDie = TRUE
SPECIFICATION FairSpec
INVARIANTS CountIsUnderWay OneAtATime OffIsSilent
PROPERTIES Told
CHECK_DEADLOCK FALSE
