\* Resumed at login and by the task at once: two slots, two codes.
SPECIFICATION Spec
CONSTANTS
  Slots = 2
  Codes = {c1, c2}
  None = None
  Empty = Empty
  Gone = Gone
  Events = 2
CHECK_DEADLOCK FALSE
INVARIANT ResumedAlone
