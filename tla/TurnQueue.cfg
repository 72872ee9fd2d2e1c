\* Two requests; any two user calls, faults and native approvals, or one of each, before
\* or after the session is there; and the first turn may report working.
SPECIFICATION Spec
CONSTANTS
  r1 = r1
  r2 = r2
  NoRequest = NoRequest
  Requests = {r1, r2}
  MaxCalls = 2
  MaxFaults = 2
  MaxTurns = 2
  MaxAsks = 2
SYMMETRY Symmetry
CONSTRAINT Bounded
INVARIANTS SingleTurn QueueCurrent CompletedMeansDrained QueueMatchesLedger
           SentIsDurable PendingApprovalIsLive
PROPERTIES WakeUpsAreKept RevokedTurnIsSilent UnknownDeliveryIsSticky
CHECK_DEADLOCK FALSE
