\* A request whose prompt waits in memory is continued.
SPECIFICATION Spec
CONSTANTS
  r1 = r1
  r2 = r2
  NoRequest = NoRequest
  Requests = {r1, r2}
  MaxCalls = 1
  MaxFaults = 0
  MaxTurns = 1
  MaxAsks = 0
SYMMETRY Symmetry
INVARIANT PromptSentOnce
CHECK_DEADLOCK FALSE
