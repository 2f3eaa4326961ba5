\* Two processes, two codes, two events.
SPECIFICATION FairSpec
CONSTANTS
  Slots = 2
  Codes = {c1, c2}
  None = None
  Empty = Empty
  Gone = Gone
  Events = 2
CHECK_DEADLOCK FALSE
INVARIANT TypeOK
INVARIANT PromiseStands
INVARIANT RunningAgentIsRecorded
PROPERTY StaysRunning
