\* Two jobs and three events.
CONSTANTS
  Jobs = {1, 2}
  Events = 3
SPECIFICATION Spec
INVARIANTS
  TypeOK
  NoLostWakeUp
  NothingSkipped
  CursorsAreValid
PROPERTY BoundariesArrive
