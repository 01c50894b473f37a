CONSTANTS
  NoObject = NoObject
  Readers = {r1, r2}
  Actions = {a1, a2, a3}
  MaxMoves = 2
  MaxObjects = 4
  MaxRestarts = 2
SPECIFICATION Spec
CHECK_DEADLOCK FALSE
INVARIANT AcknowledgedActionsSurvive
