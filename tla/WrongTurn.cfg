\* A request that finishes while its cancellation is being checked.
SPECIFICATION Spec
CONSTANTS
  r1 = r1
  r2 = r2
  NoRequest = NoRequest
  Requests = {r1, r2}
  MaxCalls = 1
  MaxFaults = 0
  MaxTurns = 1
  MaxAsks = 0
SYMMETRY Symmetry
PROPERTY CancelHitsItsTarget
CHECK_DEADLOCK FALSE
