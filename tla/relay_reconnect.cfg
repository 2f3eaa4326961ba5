\* A guest, its reconnect and an operator in every order the awaits allow,
\* with failing transactions, an expiring code and restarts.
SPECIFICATION Spec
CONSTANTS
  Guests = {g1, g2}
  Operators = {o1}
  Calls = {}
  Requests = {}
  Modes = {"attended", "unattended"}
  Faults = {"store", "restart", "expiry"}
  Chans = {c1, c2, c3, c4}
  None = None
CHECK_DEADLOCK FALSE
SYMMETRY Symmetry
INVARIANT TypeOK
INVARIANT FramesFollowRecordedGrant
INVARIANT SlotHeldByLiveHandler
PROPERTY CleanupSparesOthers
PROPERTY GateHolds
