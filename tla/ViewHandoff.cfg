\* Any three of: two view calls, a request, an approval, a lost connection.
CONSTANTS
  Views = 2
  Slots = {s1, s2}
  Workers = 1
  Viewers = 1
  Requests = 1
  Faults = 1
  Approvals = 1
  Events = 3
SPECIFICATION Spec
SYMMETRY Symmetry
\* Every goroutine may be through and the bounded events used up.
CHECK_DEADLOCK FALSE
INVARIANTS
  TypeOK
  OneAttachAtATime
  ViewIsWatched
  ViewSettles
  InputComesBack
  WorkGoesOn
