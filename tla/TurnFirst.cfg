\* Two view calls and a request.
CONSTANTS
  Views = 2
  Slots = {s1, s2}
  Workers = 1
  Viewers = 1
  Requests = 1
  Faults = 0
  Approvals = 0
  Events = 3
SPECIFICATION Spec
SYMMETRY Symmetry
CHECK_DEADLOCK FALSE
PROPERTY TurnGoesFirst
