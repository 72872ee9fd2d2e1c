\* One user call and one fault, with the fairness of the goroutines and of the calls
\* in progress.
SPECIFICATION FairSpec
CONSTANTS
  r1 = r1
  r2 = r2
  NoRequest = NoRequest
  Requests = {r1, r2}
  MaxCalls = 1
  MaxFaults = 1
  MaxTurns = 1
  MaxAsks = 0
INVARIANT TypeOK
PROPERTIES KeepsPromise CancelSettles RevokedTurnLeaves WaitingWorkMoves
CHECK_DEADLOCK FALSE
