\* Opened, hidden and opened again while one request's turn runs.
CONSTANTS
  Views = 3
  Slots = {s1, s2}
  Workers = 1
  Viewers = 1
  Requests = 1
  Faults = 0
  Approvals = 0
  Events = 4
SPECIFICATION Spec
SYMMETRY Symmetry
CHECK_DEADLOCK FALSE
INVARIANT OpenedViewComes
