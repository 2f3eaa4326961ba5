\* Two connections, two shells, two chat windows, one key.
SPECIFICATION FairSpec
CONSTANTS
  Conns = 2
  Shells = 2
  Windows = 2
  Keys = {k1}
  Queued = 1
CHECK_DEADLOCK FALSE
INVARIANT TypeOK
INVARIANT ConnectionLeavesNothing
INVARIANT RunningShellIsServed
PROPERTY ReadersEnd
PROPERTY WindowsGoAway
