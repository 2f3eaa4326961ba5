\* Two uploads, a small and a large download, every fault.
SPECIFICATION FairSpec
CONSTANTS
  p1 = p1
  p2 = p2
  g1 = g1
  g2 = g2
  Puts = {p1, p2}
  Gets = {g1, g2}
  Size <- MCSize
  CHUNK = 262144
  Faults = {"operator", "agent", "crash", "disk"}
  None = None
CHECK_DEADLOCK FALSE
INVARIANT TypeOK
INVARIANT ReceivedIsWhole
INVARIANT NoLeftovers
PROPERTY BusyClears
