\* One guest, one operator and one REST call of every kind, with every fault:
\* what the calls may do to the row, and that everything that started ends.
SPECIFICATION FairSpec
CONSTANTS
  Guests = {g1}
  Operators = {o1}
  Calls = {e1}
  Requests = {"rename", "active", "ended", "delete", "enrol"}
  Modes = {"attended", "unattended"}
  Faults = {"store", "restart", "expiry"}
  Chans = {c1, c2, c3}
  None = None
CHECK_DEADLOCK FALSE
INVARIANT NothingWithoutAGrant
PROPERTY DeadSocketsAreForgotten
PROPERTY CallsReturn
