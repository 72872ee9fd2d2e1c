\* A request accepted before a restart, another one after it.
SPECIFICATION Spec
CONSTANTS
  r1 = r1
  r2 = r2
  NoRequest = NoRequest
  Requests = {r1, r2}
  MaxCalls = 1
  MaxFaults = 1
  MaxTurns = 1
  MaxAsks = 0
SYMMETRY Symmetry
INVARIANT CompletedMeansServed
CHECK_DEADLOCK FALSE
