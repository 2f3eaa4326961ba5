SPECIFICATION FairSpec
CONSTANTS
  Enables = {e1}
  Disables = {d1}
  Escapes = {k1}
  Loop = loop
  Reconnects = 1
  Kinds = {"dim", "lock", "cover"}
  Faults = {"slow", "overlay", "dimmer", "guard", "crash"}
  None = None
INVARIANT TypeOK
INVARIANT DarkIsBounded
INVARIANT CeilingStands
PROPERTY ScreenComesBack
\* Every thread is started once: a run ends when they have all returned.
CHECK_DEADLOCK FALSE
