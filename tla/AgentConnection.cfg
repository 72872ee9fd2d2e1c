\* Two sessions, one of them left behind by an earlier run; two attempts, requests and
\* permissions; and, while one session works alone, every tool call that can be told apart.
CONSTANTS
  s1 = s1
  s2 = s2
  Sessions = {s1, s2}
  Old = {s1}
  Conns = {1, 2}
  Turns = {1, 2}
  Asks = {1, 2}
  MaxCalls = 3
SPECIFICATION Spec
CONSTRAINT Bounded
INVARIANTS
  TypeOK
  LoadedIsTrue
  NothingLeaks
  IdleReleaseIsHarmless
  EveryoneReturns
  WaitingIsAnswerable
  OldCallKeepsItsTurn
CHECK_DEADLOCK FALSE
