\* One download of two chunks, nothing fails.
SPECIFICATION FairSpec
CONSTANTS
  p1 = p1
  p2 = p2
  g1 = g1
  g2 = g2
  Puts = {}
  Gets = {g2}
  Size <- MCLarge
  CHUNK = 262144
  Faults = {}
  None = None
CHECK_DEADLOCK FALSE
PROPERTY DownloadsComplete
