\* One call with an effect, one to read, one notice; two connections.
CONSTANTS
  Effects = {e1}
  Reads = {q1}
  Notice = n1
  Conns = {1, 2}
SPECIFICATION Spec
INVARIANTS
  TypeOK
  EffectOnce
  NoConnectionLeaks
  CountIsTrue
  EveryoneReturns
CHECK_DEADLOCK FALSE
